---- MODULE Spec2Model ----
(***************************************************************************)
(* A model of the tinyclaw queue processor (src/src/queue-processor.ts)    *)
(* and of the swarm shuffle-reduce stage (src/src/swarm/shuffle.ts).       *)
(*                                                                         *)
(* Spec / SpecLive   the file-queue dispatcher: poll ticks, per-key        *)
(*                   promise chains, processMessage with team chains and   *)
(*                   fan-out, rollback, crash and startup recovery.        *)
(* SpecReduce        shuffleReducePartitions: partition tasks under the    *)
(*                   Semaphore, then the final merge.                      *)
(* SpecRespond       the writers of response files: the tail of            *)
(*                   processMessage (send_file markers, truncation),       *)
(*                   sendProgressUpdate and sendFinalResponse.             *)
(* SpecShuffle       shuffleByKey: key extraction, grouping, sub-split.    *)
(* SpecJob           processSwarmJob: input bounds, map results, progress, *)
(*                   job status.                                           *)
(* SpecRoute         the chain key chosen by processQueue (peekAgentId)    *)
(*                   and the routing of processMessage, for any settings.  *)
(* SpecChain         reset flags and the team chain loop of processMessage *)
(*                   for two calls: handoff, fan-out, end of the chain.    *)
(* SpecPool          batch split and the worker pool with its retries.     *)
(* SpecMemory        loadMemoryContext (lib/invoke.ts): recent reflections.*)
(* SpecInvoke        loadMemoryContext and invokeAgent: the [MEMORY] block *)
(*                   and its injection into the message.                   *)
(* SpecMerge         shuffleReducePartitions around the merge fan-in.      *)
(* SpecFaulty        the dispatcher with failing file operations.          *)
(***************************************************************************)
EXTENDS Integers, Sequences, FiniteSets, TLC

(***************************************************************************)
(* Bounds of the model.                                                    *)
(***************************************************************************)
MaxFiles == 2       \* message files the channel clients deposit
MaxUpsets == 1      \* process crashes, I/O errors and worker errors, together
MaxParts == 3       \* keyed partitions of a shuffle result
MaxConc == 2        \* options.concurrency of a swarm
MaxTokens == 3      \* tokens of an agent's output
Slack == 2          \* text lengths tried on either side of a threshold
MaxItems == 3         \* parsed map items handed to shuffleByKey
MaxPartitionSize == 2 \* largest configured max_partition_size
MaxBatches == 10      \* batches of a swarm job
MaxMentions == 2      \* leading @tokens of a message
MaxSteps == 3         \* chain steps recorded before single handoffs are no longer tried
MaxPlacings == 2      \* reset flags placed
MaxInput == 4         \* input items of a swarm job that is split into batches
MaxLines == 12      \* non-blank lines of reflections.jsonl
MaxWords == 2       \* words of a message handed to invokeAgent
MaxEpisodes == 4    \* lines of episodes.jsonl

(***************************************************************************)
(* Configuration (settings.json): agents, in Object.keys order, one team.  *)
(***************************************************************************)
AgentOrder == <<"default", "a", "b", "c">>
Agents == {AgentOrder[i] : i \in 1..Len(AgentOrder)}
TeamAgents == {"a", "b", "c"}
TeamLeader == "a"
Keys == Agents \cup {"error"}

NoFile == 0
NoAgent == "-"
Files == 1..MaxFiles

(***************************************************************************)
(* Inbound messages: the optional pre-routed `agent`, the leading run of   *)
(* @tokens of `message`, and whether the file holds parseable JSON.        *)
(***************************************************************************)
Msg(agent, at, ok) == [agent |-> agent, at |-> at, ok |-> ok]
Messages ==
    { Msg("", <<>>, TRUE),            \* "hello"
      Msg("", <<"a">>, TRUE),         \* "@a ..."
      Msg("", <<"b">>, TRUE),         \* "@b ..."
      Msg("", <<"a", "b">>, TRUE),    \* "@a @b ..."
      Msg("", <<>>, FALSE) }          \* not JSON

VARIABLES
    phase,        \* "boot": before recoverOrphanedFiles; "run": polling
    content,      \* content[f]: the message of the f-th deposited file
    incoming,     \* files in queue/incoming
    processing,   \* files in queue/processing
    outgoing,     \* responses written to queue/outgoing, in write order
    queuedFiles,  \* the Set queuedFiles
    chains,       \* agentProcessingChains: key -> task at the tail, or NoFile
    task,         \* task[f]: the promise-chain task of file f
    crashes,      \* process crashes so far
    faults,       \* I/O and worker errors thrown inside processMessage's try so far
    firstEnq,     \* files in the order of their first enqueue
    rolled        \* files whose processing was rolled back at least once

(* shuffleReducePartitions (swarm/shuffle.ts) *)
VARIABLES
    shuffleResult,     \* number of keyed partitions; whether unkeyed items exist;
                       \* whether a keyed partition is named `_unkeyed`
    semaphore,         \* the Semaphore: max, current, queue of waiting tasks
    promises,          \* promises[t]: where the async task of partition t stands
    partitionResults,  \* the array partitionResults
    reducePc,          \* where shuffleReducePartitions itself stands
    releases           \* releases[t]: calls of semaphore.release() by task t

(* The writers of response files (queue-processor.ts) *)
VARIABLES
    writer,            \* the code path that writes: processMessage, ...
    input,             \* the text handed to the writer
    responseData       \* the ResponseData written, or NoResponse

(* shuffleByKey (swarm/shuffle.ts) *)
VARIABLES
    mapOutput,         \* the parsed map items: the key-field value of each
    shuffleConfig,     \* config.shuffle: multi_key, max_partition_size
    shuffled           \* the ShuffleResult returned, or NoShuffle

(* processSwarmJob (queue-processor.ts) *)
VARIABLES
    jobInput,          \* resolved item count, the SwarmConfig, the environment
    job,               \* the SwarmJob record: status, error, progress counts
    jobPc,             \* where processSwarmJob stands
    batchResults,      \* BatchResult values settled so far, counted by kind
    successResults,    \* the results collected for the reduce, by kind
    lastProgressUpdate,
    sent               \* messages written to queue/outgoing by the job

(* The routing of processMessage (queue-processor.ts) *)
VARIABLES
    settings,          \* the agents, teams and swarms configured
    inbound,           \* the message: pre-routed agent, leading @tokens
    peeked,            \* the chain key processQueue chose for the file, or NoKey
    routed,            \* the branch taken and the agent, or NoRoute
    teamContext        \* the team the chain runs in, NullContext, or Unrouted

(* loadMemoryContext (lib/invoke.ts) *)
VARIABLES
    memoryDir,         \* the files of <working directory>/memory
    userMessage,       \* the message handed to invokeAgent, word by word
    memoryContext,     \* the sections loadMemoryContext built, or NoContext
    prompt             \* the message passed on to the provider, or NoPrompt

(* Batch split and worker pool of processSwarmJob (queue-processor.ts) *)
VARIABLES
    poolInput,         \* the resolved items and the SwarmConfig
    batches,           \* job.batches: the SwarmBatch records
    poolPc             \* "idle", "splitting", "processing", "done"

(* The team chain executor of processMessage (queue-processor.ts) *)
VARIABLES
    resetFlags,        \* the reset flag files that exist: "global" or an agent id
    placed,            \* reset flags placed so far
    conv,              \* conv[p]: the p-th processMessage call and its chain
    invoked,           \* the calls of invokeAgent made by the latest step, in order
    fresh              \* calls of invokeAgent with the reset argument true, so far

queueVars == <<phase, content, incoming, processing, outgoing, queuedFiles, chains,
               task, crashes, faults, firstEnq, rolled>>
swarmVars == <<shuffleResult, semaphore, promises, partitionResults, reducePc,
               releases>>
respondVars == <<writer, input, responseData>>
shuffleVars == <<mapOutput, shuffleConfig, shuffled>>
jobVars == <<jobInput, job, jobPc, batchResults, successResults,
             lastProgressUpdate, sent>>

routeVars == <<settings, inbound, peeked, routed, teamContext>>
poolVars == <<poolInput, batches, poolPc>>
memoryVars == <<memoryDir, userMessage, memoryContext, prompt>>
chainVars == <<resetFlags, placed, conv, invoked, fresh>>

vars == <<queueVars, swarmVars, respondVars,
         shuffleVars, jobVars, routeVars, chainVars, poolVars, memoryVars>>

(* What the actions of one part leave alone: the variables of the others. *)
exceptQueue ==
    <<swarmVars, respondVars, shuffleVars, jobVars, routeVars, chainVars, poolVars, memoryVars>>
exceptSwarm ==
    <<queueVars, respondVars, shuffleVars, jobVars, routeVars, chainVars, poolVars, memoryVars>>
exceptRespond ==
    <<queueVars, swarmVars, shuffleVars, jobVars, routeVars, chainVars, poolVars, memoryVars>>
exceptShuffle ==
    <<queueVars, swarmVars, respondVars, jobVars, routeVars, chainVars, poolVars, memoryVars>>
exceptJob ==
    <<queueVars, swarmVars, respondVars, shuffleVars, routeVars, chainVars, poolVars, memoryVars>>
exceptRoute ==
    <<queueVars, swarmVars, respondVars, shuffleVars, jobVars, chainVars, poolVars, memoryVars>>
exceptChain ==
    <<queueVars, swarmVars, respondVars, shuffleVars, jobVars, routeVars, poolVars, memoryVars>>
exceptPool ==
    <<queueVars, swarmVars, respondVars, shuffleVars, jobVars, routeVars, chainVars, memoryVars>>
exceptMemory ==
    <<queueVars, swarmVars, respondVars, shuffleVars, jobVars, routeVars, chainVars, poolVars>>

Exists(f) == f <= Len(content)

(***************************************************************************)
(* The swarm and the response writers at rest.                             *)
(***************************************************************************)
Tasks == 1..(MaxParts + 1)

NoResponse == [written |-> FALSE]

SwarmIdle ==
    /\ shuffleResult = [partitions |-> 0, unkeyed |-> FALSE, clash |-> FALSE]
    /\ semaphore = [max |-> 1, current |-> 0, queue |-> <<>>]
    /\ promises = [t \in Tasks |-> "none"]
    /\ partitionResults = <<>>
    /\ reducePc = "idle"
    /\ releases = [t \in Tasks |-> 0]

RespondIdle ==
    /\ writer = "idle"
    /\ input = [tokens |-> <<>>, filler |-> 0]
    /\ responseData = NoResponse

NoShuffle == [done |-> FALSE]

ShuffleIdle ==
    /\ mapOutput = <<>>
    /\ shuffleConfig = [multi_key |-> "unset", max_partition_size |-> 0]
    /\ shuffled = NoShuffle

NoRoute == [branch |-> "none"]

NoKey == ""

Unrouted == "unset"

(* teamContext = null: the message is handled by a single agent *)
NullContext == "null"

RouteIdle ==
    /\ settings = [agents |-> {"default"}, teams |-> {}, swarms |-> {}]
    /\ inbound = [agent |-> "", at |-> <<>>]
    /\ peeked = NoKey
    /\ routed = NoRoute
    /\ teamContext = Unrouted

NoContext == [loaded |-> FALSE]

NoPrompt == [sent |-> FALSE]

(* a file that does not exist *)
Missing == [exists |-> FALSE]

(* a memory directory as ensureMemoryDirectory leaves a new one *)
EmptyMemoryDir ==
    [knowledge |-> Missing, reflections |-> <<>>, episodes |-> <<>>,
     skills |-> Missing]

MemoryIdle ==
    /\ memoryDir = EmptyMemoryDir
    /\ userMessage = <<>>
    /\ memoryContext = NoContext
    /\ prompt = NoPrompt

PoolIdle ==
    /\ poolInput = [items |-> <<>>, config |-> [batch_size |-> 0, concurrency |-> 0]]
    /\ batches = <<>>
    /\ poolPc = "idle"

Convs == 1..2

NoConv == [pc |-> "none", pred |-> 0, agentId |-> NoAgent, team |-> FALSE,
           cur |-> NoAgent, chainSteps |-> <<>>, mentions |-> <<>>, pend |-> {},
           completed |-> <<>>, finalResponse |-> <<>>]

ChainIdle ==
    /\ resetFlags = {}
    /\ placed = 0
    /\ conv = [p \in Convs |-> NoConv]
    /\ invoked = <<>>
    /\ fresh = 0

Absent == -1    \* an optional number of the configuration that is not set

NewJob == [status |-> "initializing", error |-> "", total |-> 0,
           completed |-> 0, failed |-> 0]

NoResults == [text |-> 0, empty |-> 0, failed |-> 0]

JobIdle ==
    /\ jobInput = [items |-> 0,
                   config |-> [batch_size |-> 0, progress_interval |-> Absent,
                               shuffle |-> FALSE],
                   response |-> "short", filesDir |-> TRUE]
    /\ job = NewJob
    /\ jobPc = "idle"
    /\ batchResults = NoResults
    /\ successResults = NoResults
    /\ lastProgressUpdate = 0
    /\ sent = <<>>

(***************************************************************************)
(* lib/routing parseAgentRouting: the agent/team ids matched by the        *)
(* leading @tokens decide the target; several matches give the sentinel.   *)
(***************************************************************************)
parseAgentRouting(m) ==
    LET T == SelectSeq(m.at, LAMBDA x : x \in Agents)
    IN  IF Len(T) = 0 THEN [agentId |-> "default", isTeam |-> FALSE]
        ELSE IF Len(T) = 1 THEN [agentId |-> T[1], isTeam |-> FALSE]
        ELSE [agentId |-> "error", isTeam |-> FALSE]

(* lib/routing findTeamForAgent: the team the agent belongs to, if any. *)
findTeamForAgent(a) == a \in TeamAgents

(* peekAgentId: the key under which the dispatcher serializes a file. *)
peekAgentId(m) ==
    IF ~m.ok THEN "default"
    ELSE IF m.agent \in Agents THEN m.agent
    ELSE parseAgentRouting(m).agentId

keyOf(f) == peekAgentId(content[f])

(* processMessage lines 70-119: the agent the message is routed to. *)
routeAgent(m) ==
    LET r == IF m.agent \in Agents THEN m.agent ELSE parseAgentRouting(m).agentId
    IN  IF r = "error" THEN "error"
        ELSE IF r \in Agents THEN r
        ELSE IF "default" \in Agents THEN "default"
        ELSE AgentOrder[1]

(***************************************************************************)
(* Tasks.  pc: "none" no task; "waiting" chained, not started; "moved"     *)
(* file renamed into processing; "invoking" awaiting invokeAgent;          *)
(* "fanout" awaiting Promise.all of the fan-out; "written" response        *)
(* written, processing file not yet deleted.                               *)
(***************************************************************************)
NoTask == [pc |-> "none", pred |-> NoFile, cur |-> NoAgent, team |-> FALSE,
           fan |-> {}, pend |-> {}, threw |-> FALSE]

NewTask(pred) == [NoTask EXCEPT !.pc = "waiting", !.pred = pred]

(* Mutant: every task is chained on a fresh resolved promise. *)
CurrentChainNone(ch, k) == NoFile

(* agentProcessingChains.get(agentId) || Promise.resolve() *)
CurrentChain(ch, k) == ch[k]

(* Mutant: one chain for all keys (every file serialized under "default"). *)
EnqueueOneGlobal(f, st) ==
    IF f \in st.queued THEN st
    ELSE [queued |-> st.queued \cup {f},
          chains |-> [st.chains EXCEPT !["default"] = f],
          task   |-> [st.task EXCEPT ![f] = NewTask(st.chains["default"])],
          first  |-> IF \E i \in 1..Len(st.first) : st.first[i] = f
                     THEN st.first ELSE Append(st.first, f)]

(* One iteration of the for loop of processQueue. *)
EnqueueOne(f, st) ==
    IF f \in st.queued THEN st
    ELSE LET k == keyOf(f)
         IN  [queued |-> st.queued \cup {f},
              chains |-> [st.chains EXCEPT ![k] = f],
              task   |-> [st.task EXCEPT ![f] = NewTask(CurrentChain(st.chains, k))],
              first  |-> IF \E i \in 1..Len(st.first) : st.first[i] = f
                         THEN st.first ELSE Append(st.first, f)]

RECURSIVE EnqueueAll(_, _)
EnqueueAll(fs, st) ==
    IF fs = <<>> THEN st ELSE EnqueueAll(Tail(fs), EnqueueOne(Head(fs), st))

(* readdir + sort by mtime: files are deposited in the order of their ids. *)
SortByTime(S) ==
    [p \in 1..Cardinality(S) |->
        CHOOSE x \in S : Cardinality({y \in S : y <= x}) = p]

(***************************************************************************)
(* Run to completion: a callback of the event loop (a tick, the completion *)
(* of a worker) runs only when no synchronous stretch of a task is         *)
(* pending: no task is ready to start, between its rename and its first    *)
(* await, or between the write of its response and its return.             *)
(***************************************************************************)
Busy ==
    \E f \in Files :
        \/ task[f].pc \in {"moved", "written"}
        \/ task[f].pc = "waiting" /\ task[f].pred = NoFile

(***************************************************************************)
(* Environment: a channel client deposits a message file in incoming.      *)
(***************************************************************************)
Deposit ==
    /\ Len(content) < MaxFiles
    /\ \E m \in Messages :
         /\ content' = Append(content, m)
         /\ incoming' = incoming \cup {Len(content) + 1}
    /\ UNCHANGED <<phase, processing, outgoing, queuedFiles, chains, task,
                   crashes, faults, firstEnq, rolled>>
    /\ UNCHANGED exceptQueue

(* Mutant: startup without the recovery of processing/. *)
RecoverNothing ==
    /\ phase = "boot"
    /\ phase' = "run"
    /\ UNCHANGED <<content, incoming, processing, outgoing, queuedFiles, chains,
                   task, crashes, faults, firstEnq, rolled>>
    /\ UNCHANGED exceptQueue

(* recoverOrphanedFiles, called once before setInterval. *)
Recover ==
    /\ phase = "boot"
    /\ phase' = "run"
    /\ incoming' = incoming \cup processing
    /\ processing' = {}
    /\ UNCHANGED <<content, outgoing, queuedFiles, chains, task, crashes, faults,
                   firstEnq, rolled>>
    /\ UNCHANGED exceptQueue

(* processQueue: one tick of setInterval(processQueue, 1000). *)
Tick ==
    /\ phase = "run"
    /\ ~Busy
    /\ LET st == EnqueueAll(SortByTime(incoming),
                            [queued |-> queuedFiles, chains |-> chains,
                             task |-> task, first |-> firstEnq])
       IN  /\ queuedFiles' = st.queued
           /\ chains' = st.chains
           /\ task' = st.task
           /\ firstEnq' = st.first
    /\ UNCHANGED <<phase, content, incoming, processing, outgoing, crashes,
                   faults, rolled>>
    /\ UNCHANGED exceptQueue

(***************************************************************************)
(* The settle callbacks of a task: queuedFiles.delete, release of the      *)
(* tasks chained on it, and deletion of the map entry if it is the tail.   *)
(***************************************************************************)
(* Mutant: the tasks chained on the settled task are never released. *)
SettledNoRelease(f, tk) ==
    [g \in Files |-> IF g = f THEN NoTask ELSE tk[g]]

Settled(f, tk) ==
    [g \in Files |->
        IF g = f THEN NoTask
        ELSE IF tk[g].pred = f THEN [tk[g] EXCEPT !.pred = NoFile]
        ELSE tk[g]]

(* Mutant: the cleanup callback deletes the entry without comparing it with *)
(* the promise it was registered on.                                       *)
SettleDeleteAlways(f) ==
    /\ queuedFiles' = queuedFiles \ {f}
    /\ task' = Settled(f, task)
    /\ chains' = [k \in Keys |-> IF k = keyOf(f) THEN NoFile ELSE chains[k]]

(* Mutant: the finally callback does not delete the name from queuedFiles. *)
SettleKeepName(f) ==
    /\ queuedFiles' = queuedFiles
    /\ task' = Settled(f, task)
    /\ chains' = [k \in Keys |-> IF chains[k] = f THEN NoFile ELSE chains[k]]

Settle(f) ==
    /\ queuedFiles' = queuedFiles \ {f}
    /\ task' = Settled(f, task)
    /\ chains' = [k \in Keys |-> IF chains[k] = f THEN NoFile ELSE chains[k]]

(* Mutant: the task does not wait for the promise it was chained on. *)
StartEager(f) ==
    /\ phase = "run"
    /\ task[f].pc = "waiting"
    /\ f \in incoming
    /\ incoming' = incoming \ {f}
    /\ processing' = processing \cup {f}
    /\ task' = [task EXCEPT ![f].pc = "moved"]
    /\ UNCHANGED <<phase, content, outgoing, queuedFiles, chains, crashes,
                   faults, firstEnq, rolled>>
    /\ UNCHANGED exceptQueue

(* currentChain.then(() => processMessage(file.path)): renameSync to processing. *)
Start(f) ==
    /\ phase = "run"
    /\ task[f].pc = "waiting"
    /\ task[f].pred = NoFile
    /\ f \in incoming
    /\ incoming' = incoming \ {f}
    /\ processing' = processing \cup {f}
    /\ task' = [task EXCEPT ![f].pc = "moved"]
    /\ UNCHANGED <<phase, content, outgoing, queuedFiles, chains, crashes,
                   faults, firstEnq, rolled>>
    /\ UNCHANGED exceptQueue

(* Mutant: the catch block removes the processing file instead of moving it back. *)
RollbackDrop(f) ==
    /\ processing' = processing \ {f}
    /\ incoming' = incoming
    /\ rolled' = rolled \cup {f}
    /\ Settle(f)

(* catch of processMessage: move the file back to incoming; the task settles. *)
Rollback(f) ==
    /\ processing' = processing \ {f}
    /\ incoming' = incoming \cup {f}
    /\ rolled' = rolled \cup {f}
    /\ Settle(f)

Response(f, kind) == [mid |-> f, kind |-> kind]

(* read + parse + route; easter egg, or the first invokeAgent call. *)
Read(f) ==
    /\ phase = "run"
    /\ task[f].pc = "moved"
    /\ LET m == content[f]
           a == routeAgent(m)
       IN  \/ /\ ~m.ok
              /\ Rollback(f)
              /\ UNCHANGED <<outgoing, faults>>
           \/ /\ crashes + faults < MaxUpsets
              /\ faults' = faults + 1
              /\ Rollback(f)
              /\ UNCHANGED outgoing
           \/ /\ m.ok /\ a = "error"
              /\ outgoing' = Append(outgoing, Response(f, "easter"))
              /\ task' = [task EXCEPT ![f].pc = "written"]
              /\ UNCHANGED <<incoming, processing, queuedFiles, chains, faults, rolled>>
           \/ /\ m.ok /\ a # "error"
              /\ task' = [task EXCEPT ![f].pc = "invoking", ![f].cur = a,
                                      ![f].team = findTeamForAgent(a)]
              /\ UNCHANGED <<incoming, processing, outgoing, queuedFiles, chains,
                             faults, rolled>>
    /\ UNCHANGED <<phase, content, crashes, firstEnq>>
    /\ UNCHANGED exceptQueue

(***************************************************************************)
(* lib/routing extractTeammateMentions: the teammates of the current agent *)
(* mentioned by a response, in order of first occurrence.                  *)
(***************************************************************************)
Mentions(cur) ==
    LET mates == TeamAgents \ {cur}
    IN  {<<>>} \cup {<<x>> : x \in mates}
        \cup {p \in mates \X mates : p[1] # p[2]}

(* Mutant: the error of a single-agent invocation is not turned into the apology. *)
singleAgentResponseNoApology(threw) == "reply"

(* finalResponse of a single-agent invocation that returned, or threw *)
singleAgentResponse(threw) == IF threw THEN "apology" ELSE "reply"

(* invokeAgent returns (or throws) for a single agent or for a chain step. *)
StepDone(f) ==
    /\ phase = "run"
    /\ ~Busy
    /\ task[f].pc = "invoking"
    /\ \/ /\ ~task[f].team
          /\ \E threw \in BOOLEAN :
               /\ threw => crashes + faults < MaxUpsets
               /\ faults' = IF threw THEN faults + 1 ELSE faults
               /\ outgoing' = Append(outgoing, Response(f, singleAgentResponse(threw)))
               /\ task' = [task EXCEPT ![f].pc = "written", ![f].cur = NoAgent,
                                       ![f].threw = threw]
       \/ /\ task[f].team
          /\ UNCHANGED faults
          /\ \E ms \in Mentions(task[f].cur) :
               IF Len(ms) = 0 THEN
                  /\ outgoing' = Append(outgoing, Response(f, "reply"))
                  /\ task' = [task EXCEPT ![f].pc = "written", ![f].cur = NoAgent]
               ELSE IF Len(ms) = 1 THEN
                  /\ task' = [task EXCEPT ![f].cur = ms[1]]
                  /\ UNCHANGED outgoing
               ELSE
                  /\ task' = [task EXCEPT ![f].pc = "fanout", ![f].cur = NoAgent,
                                          ![f].fan = {ms[i] : i \in 1..Len(ms)},
                                          ![f].pend = {ms[i] : i \in 1..Len(ms)}]
                  /\ UNCHANGED outgoing
    /\ UNCHANGED <<phase, content, incoming, processing, queuedFiles, chains,
                   crashes, firstEnq, rolled>>
    /\ UNCHANGED exceptQueue

(* One invokeAgent of the fan-out returns; the last one ends the chain. *)
FanDone(f) ==
    /\ phase = "run"
    /\ ~Busy
    /\ task[f].pc = "fanout"
    /\ \E a \in task[f].pend :
         IF task[f].pend = {a} THEN
            /\ outgoing' = Append(outgoing, Response(f, "reply"))
            /\ task' = [task EXCEPT ![f].pc = "written", ![f].pend = {},
                                    ![f].fan = {}]
         ELSE
            /\ task' = [task EXCEPT ![f].pend = @ \ {a}]
            /\ UNCHANGED outgoing
    /\ UNCHANGED <<phase, content, incoming, processing, queuedFiles, chains,
                   crashes, faults, firstEnq, rolled>>
    /\ UNCHANGED exceptQueue

(* fs.unlinkSync(processingFile); processMessage returns and the task settles. *)
Finish(f) ==
    /\ phase = "run"
    /\ task[f].pc = "written"
    /\ processing' = processing \ {f}
    /\ Settle(f)
    /\ UNCHANGED <<phase, content, incoming, outgoing, crashes, faults, firstEnq,
                   rolled>>
    /\ UNCHANGED exceptQueue

(* The process dies; the directories survive, the in-memory state does not. *)
Crash ==
    /\ phase = "run"
    /\ crashes + faults < MaxUpsets
    /\ crashes' = crashes + 1
    /\ phase' = "boot"
    /\ queuedFiles' = {}
    /\ chains' = [k \in Keys |-> NoFile]
    /\ task' = [f \in Files |-> NoTask]
    /\ UNCHANGED <<content, incoming, processing, outgoing, faults, firstEnq, rolled>>
    /\ UNCHANGED exceptQueue

QueueInit ==
    /\ phase = "boot"
    /\ content = <<>>
    /\ incoming = {}
    /\ processing = {}
    /\ outgoing = <<>>
    /\ queuedFiles = {}
    /\ chains = [k \in Keys |-> NoFile]
    /\ task = [f \in Files |-> NoTask]
    /\ crashes = 0
    /\ faults = 0
    /\ firstEnq = <<>>
    /\ rolled = {}

Init ==
    /\ MemoryIdle
    /\ PoolIdle
    /\ ChainIdle
    /\ QueueInit
    /\ SwarmIdle
    /\ RespondIdle
    /\ ShuffleIdle
    /\ JobIdle
    /\ RouteIdle

StartSome == \E f \in Files : Start(f)
ReadSome == \E f \in Files : Read(f)
StepSome == \E f \in Files : StepDone(f)
FanSome == \E f \in Files : FanDone(f)
FinishSome == \E f \in Files : Finish(f)

Next ==
    \/ Deposit
    \/ Recover
    \/ Tick
    \/ StartSome
    \/ ReadSome
    \/ StepSome
    \/ FanSome
    \/ FinishSome
    \/ Crash

(***************************************************************************)
(* Worker invocations in progress.                                         *)
(***************************************************************************)
InvOf(f) ==
    IF task[f].pc = "invoking" THEN {task[f].cur}
    ELSE IF task[f].pc = "fanout" THEN task[f].pend
    ELSE {}

Invocations == {p \in Files \X Agents : p[2] \in InvOf(p[1])}

UnderKey(k) == {p \in Invocations : keyOf(p[1]) = k}

Running(f) == task[f].pc \in {"moved", "invoking", "fanout", "written"}

RunningUnder(k) == {f \in Files : Running(f) /\ keyOf(f) = k}

(* The index of the first response for file f in outgoing, 0 if none. *)
RespIdx(f) ==
    LET I == {i \in 1..Len(outgoing) : outgoing[i].mid = f}
    IN  IF I = {} THEN 0 ELSE CHOOSE i \in I : \A j \in I : i <= j

Responded(f) == RespIdx(f) > 0

(***************************************************************************)
(* C1 (as stated): for every key k at most one worker invocation started   *)
(* by work running under k is in progress, fan-outs included.              *)
(***************************************************************************)
C1_OneInvocationPerKey ==
    \A k \in Keys : Cardinality(UnderKey(k)) <= 1

(***************************************************************************)
(* C1 (amended): for every key k at most one task is running; all worker   *)
(* invocations under k belong to it, and there is more than one of them    *)
(* only while that task awaits a fan-out, one per mentioned teammate.      *)
(***************************************************************************)
C1_OneTaskPerKey ==
    \A k \in Keys :
        /\ Cardinality(RunningUnder(k)) <= 1
        /\ \A p \in UnderKey(k) : p[1] \in RunningUnder(k)
        /\ Cardinality(UnderKey(k)) > 1 =>
              \E f \in RunningUnder(k) :
                  /\ task[f].pc = "fanout"
                  /\ Cardinality(UnderKey(k)) <= Cardinality(task[f].fan)

(* A fan-out runs two workers under a key while a second task of the key waits. *)
C1_Witness ==
    \E f \in Files, g \in Files :
        /\ f # g
        /\ task[f].pc = "fanout" /\ Cardinality(task[f].pend) = 2
        /\ task[g].pc = "waiting" /\ task[g].pred = f
        /\ keyOf(f) = keyOf(g)

(***************************************************************************)
(* C2 (as stated): for every agent a at most one invokeAgent call for a is *)
(* in progress, whichever key the invoking task runs under.                *)
(***************************************************************************)
C2_OneInvocationPerAgent ==
    \A a \in Agents : Cardinality({p \in Invocations : p[2] = a}) <= 1

NoMessageLost ==
    \A f \in 1..Len(content) : f \in incoming \/ f \in processing \/ Responded(f)

Spec == Init /\ [][Next]_vars

(***************************************************************************)
(* Scheduling: every synchronous stretch of a task runs; the interval      *)
(* timer keeps firing and every worker invocation returns, and their       *)
(* callbacks, queued by the event loop, run once the loop is free (strong  *)
(* fairness: the loop is free again and again).  Deposits and crashes are  *)
(* up to the environment.                                                  *)
(***************************************************************************)
Fairness ==
    /\ WF_vars(Recover)
    /\ SF_vars(Tick)
    /\ \A f \in Files :
         /\ WF_vars(Start(f))
         /\ WF_vars(Read(f))
         /\ SF_vars(StepDone(f))
         /\ SF_vars(FanDone(f))
         /\ WF_vars(Finish(f))

SpecLive == Spec /\ Fairness

(* File f is eventually taken up, and once in processing it eventually leaves
   it, answered or restored to incoming. *)
Delivered(f) ==
    /\ (f \in incoming) ~> (f \in processing)
    /\ (f \in processing) ~>
          (f \notin processing /\ (Responded(f) \/ f \in incoming))

ChainsEnd == \A f \in Files : []<>(task[f].pc # "invoking")

hierarchical_reduce_fanin == 20

UnkeyedKey == 0

NTasks == shuffleResult.partitions + (IF shuffleResult.unkeyed THEN 1 ELSE 0)

KeyOfTask(t) ==
    IF t <= shuffleResult.partitions /\ ~(shuffleResult.clash /\ t = 1)
    THEN t
    ELSE UnkeyedKey

(* The tasks created so far by partitionKeys.map and promises.push. *)
Launched == Cardinality({t \in Tasks : promises[t] # "none"})

(* Mutant: acquire grants a permit whatever the count. *)
acquireNoLimit(sem, t) ==
    [sem |-> [sem EXCEPT !.current = @ + 1], granted |-> TRUE]

(* Semaphore.acquire, called by task t. *)
acquire(sem, t) ==
    IF sem.current < sem.max
    THEN [sem |-> [sem EXCEPT !.current = @ + 1], granted |-> TRUE]
    ELSE [sem |-> [sem EXCEPT !.queue = Append(@, t)], granted |-> FALSE]

(* Mutant: release wakes the waiter that queued last. *)
releaseNewest(sem) ==
    IF sem.queue # <<>>
    THEN [sem  |-> [sem EXCEPT !.queue = SubSeq(@, 1, Len(@) - 1)],
          next |-> sem.queue[Len(sem.queue)]]
    ELSE [sem |-> [sem EXCEPT !.current = @ - 1], next |-> 0]

(* Semaphore.release: next is the task whose acquire is resolved, 0 if none. *)
release(sem) ==
    LET s1 == [sem EXCEPT !.current = @ - 1]
    IN  IF s1.queue # <<>>
        THEN [sem  |-> [s1 EXCEPT !.current = @ + 1, !.queue = Tail(@)],
              next |-> Head(s1.queue)]
        ELSE [sem |-> s1, next |-> 0]

(* The place of rs[j] in the stably sorted array. *)
Rank(rs, j) ==
    Cardinality({k \in 1..Len(rs) :
                    \/ rs[k].key < rs[j].key
                    \/ rs[k].key = rs[j].key /\ k <= j})

(* partitionResults.sort((a, b) => a.key.localeCompare(b.key)): stable. *)
SortByKey(rs) ==
    [p \in 1..Len(rs) |-> rs[CHOOSE j \in 1..Len(rs) : Rank(rs, j) = p]]

(* One callback of partitionKeys.map, or the unkeyed task: up to the await
   of semaphore.acquire(). *)
Launch ==
    /\ reducePc = "map"
    /\ Launched < NTasks
    /\ LET t == Launched + 1
           r == acquire(semaphore, t)
       IN  /\ semaphore' = r.sem
           /\ promises' = [promises EXCEPT
                              ![t] = IF r.granted THEN "acquired" ELSE "waiting"]
    /\ UNCHANGED <<shuffleResult, partitionResults, reducePc, releases>>
    /\ UNCHANGED exceptSwarm

(* await Promise.all(promises) *)
AwaitAll ==
    /\ reducePc = "map"
    /\ Launched = NTasks
    /\ reducePc' = "await"
    /\ UNCHANGED <<shuffleResult, semaphore, promises, partitionResults, releases>>
    /\ UNCHANGED exceptSwarm

(* Task t resumes after its acquire: builds the prompt, calls invokeAgent. *)
Invoke(t) ==
    /\ reducePc = "await"
    /\ promises[t] = "acquired"
    /\ promises' = [promises EXCEPT ![t] = "invoking"]
    /\ UNCHANGED <<shuffleResult, semaphore, partitionResults, reducePc, releases>>
    /\ UNCHANGED exceptSwarm

(* invokeAgent of task t returns (ok) or throws: push, catch, finally.  The
   resumptions of granted tasks, being microtasks, run first. *)
Return(t) ==
    /\ reducePc = "await"
    /\ promises[t] = "invoking"
    /\ \A u \in Tasks : promises[u] # "acquired"
    /\ \E ok \in BOOLEAN :
         partitionResults' =
            IF ok \/ t <= shuffleResult.partitions
            THEN Append(partitionResults,
                        [key |-> KeyOfTask(t), ok |-> ok, task |-> t])
            ELSE partitionResults
    /\ LET r == release(semaphore)
       IN  /\ semaphore' = r.sem
           /\ promises' = [u \in DOMAIN promises |->
                              IF u = t THEN "settled"
                              ELSE IF u = r.next THEN "acquired"
                              ELSE promises[u]]
    /\ releases' = [releases EXCEPT ![t] = @ + 1]
    /\ UNCHANGED <<shuffleResult, reducePc>>
    /\ UNCHANGED exceptSwarm

(* Mutant: the single merge pass only below the fan-in. *)
singleMergePassBelow(count) == count < hierarchical_reduce_fanin

(* partitionResults.length <= SWARM_DEFAULTS.hierarchical_reduce_fanin *)
singleMergePass(count) == count <= hierarchical_reduce_fanin

(* Promise.all resolves: sort the results; single merge pass or none. *)
Merge ==
    /\ reducePc = "await"
    /\ \A t \in 1..NTasks : promises[t] = "settled"
    /\ partitionResults' = SortByKey(partitionResults)
    /\ reducePc' = IF singleMergePass(Len(partitionResults))
                   THEN "merge" ELSE "concatenated"
    /\ UNCHANGED <<shuffleResult, semaphore, promises, releases>>
    /\ UNCHANGED exceptSwarm

(* The merge invocation returns, or throws (fallback to the raw results). *)
MergeReturn ==
    /\ reducePc = "merge"
    /\ \E ok \in BOOLEAN :
         reducePc' = IF ok THEN "merged" ELSE "concatenated"
    /\ UNCHANGED <<shuffleResult, semaphore, promises, partitionResults, releases>>
    /\ UNCHANGED exceptSwarm

(* A call of shuffleReducePartitions(shuffleResult, options). *)
InitReduce ==
    /\ MemoryIdle
    /\ PoolIdle
    /\ ChainIdle
    /\ QueueInit
    /\ RespondIdle
    /\ ShuffleIdle
    /\ JobIdle
    /\ RouteIdle
    /\ shuffleResult \in [partitions : 0..MaxParts, unkeyed : BOOLEAN, clash : {FALSE}]
    /\ semaphore \in [max : 1..MaxConc, current : {0}, queue : {<<>>}]
    /\ promises = [t \in Tasks |-> "none"]
    /\ partitionResults = <<>>
    /\ reducePc = "map"
    /\ releases = [t \in Tasks |-> 0]

InvokeSome == \E t \in Tasks : Invoke(t)
ReturnSome == \E t \in Tasks : Return(t)

NextReduce ==
    \/ Launch
    \/ AwaitAll
    \/ InvokeSome
    \/ ReturnSome
    \/ Merge
    \/ MergeReturn

(* The event loop runs a ready step whenever there is one, and every worker
   invocation terminates.  No behaviour repeats a state, so this is all the
   progress of the tasks needs. *)
FairReduce == WF_vars(NextReduce)

SpecReduce == InitReduce /\ [][NextReduce]_vars /\ FairReduce

(* Tasks holding a permit, and worker invocations in progress. *)
Holders == {t \in Tasks : promises[t] \in {"acquired", "invoking"}}

Outstanding ==
    Cardinality({t \in Tasks : promises[t] = "invoking"})
        + (IF reducePc = "merge" THEN 1 ELSE 0)

(***************************************************************************)
(* C7: the worker invocations in progress of a partition reduce (the       *)
(* final merge included) never exceed the semaphore size, and the tasks    *)
(* past their acquire are exactly the permits counted, at most max.        *)
(***************************************************************************)
C7_BoundedConcurrency ==
    /\ Outstanding <= semaphore.max
    /\ semaphore.current = Cardinality(Holders)
    /\ semaphore.current <= semaphore.max

(* All permits are in use by running invocations while a partition waits. *)
C7_Witness ==
    /\ semaphore.max = 2
    /\ Outstanding = 2
    /\ semaphore.queue # <<>>
    /\ Len(partitionResults) > 0

(***************************************************************************)
(* C8: a task invokes only after its acquire returned and releases exactly  *)
(* once, when it settles, whether the invocation returned or threw; a      *)
(* waiter is granted a permit only as the head of the queue, which holds   *)
(* the waiters in the order of their acquire calls; when all tasks have    *)
(* settled the count is 0 and no waiter is left; every waiter is           *)
(* eventually granted a permit, and the reduce eventually returns, which   *)
(* it does only when every task has settled.                               *)
(***************************************************************************)
C8_SemaphoreDiscipline ==
    /\ [](\A t \in Tasks :
            /\ releases[t] = (IF promises[t] = "settled" THEN 1 ELSE 0)
            /\ promises[t] = "waiting" <=>
                  \E i \in 1..Len(semaphore.queue) : semaphore.queue[i] = t)
    /\ [](\A i \in 1..Len(semaphore.queue), j \in 1..Len(semaphore.queue) :
            i < j => semaphore.queue[i] < semaphore.queue[j])
    /\ [][\A t \in Tasks :
            /\ promises[t] = "waiting" /\ promises'[t] # "waiting" =>
                  /\ promises'[t] = "acquired"
                  /\ t = Head(semaphore.queue)
                  /\ \A u \in Tasks : promises[u] = "waiting" => t <= u
            /\ promises[t] # "invoking" /\ promises'[t] = "invoking" =>
                  promises[t] = "acquired"
            /\ promises[t] # "settled" /\ promises'[t] = "settled" =>
                  promises[t] = "invoking"]_vars
    /\ []((\A t \in 1..NTasks : promises[t] = "settled") =>
            semaphore.current = 0 /\ semaphore.queue = <<>>)
    /\ [](reducePc \in {"merge", "merged", "concatenated"} =>
            \A t \in 1..NTasks : promises[t] = "settled")
    /\ \A t \in Tasks : (promises[t] = "waiting") ~> (promises[t] = "acquired")
    /\ <>(reducePc \in {"merged", "concatenated"})

(* Three tasks went through a semaphore of one permit; one of them threw. *)
C8_Witness ==
    /\ semaphore.max = 1
    /\ NTasks = 3
    /\ \A t \in 1..NTasks : promises[t] = "settled"
    /\ \E i \in 1..Len(partitionResults) : ~partitionResults[i].ok
    /\ Len(partitionResults) = 2

(***************************************************************************)
(* The writers of response files (queue-processor.ts).                     *)
(*                                                                         *)
(* A text is a run of tokens followed by `filler` characters of plain      *)
(* text.  Tokens: "O" the opening `[send_file:`, "C" a closing `]`, "e"    *)
(* the path of an existing file, "x" any other text without a bracket.     *)
(***************************************************************************)
ResponseLimit == 4000            \* finalResponse.length > 4000
ResponseKeep == 3900             \* finalResponse.substring(0, 3900)
TruncatedNoticeLen == 25         \* '\n\n[Response truncated...]'
LONG_RESPONSE_THRESHOLD == 4000
AttachedNoticeLen == 40          \* '\n\n_(Full swarm report attached as file)_'
ActivatedTextLen == 58           \* '**' + '** swarm activated. Preparing ...'

Tokens == {"O", "C", "e", "x"}

TokenLen(k) == IF k = "O" THEN 11 ELSE IF k = "e" THEN 2 ELSE 1

RECURSIVE TextLen(_)
TextLen(s) == IF s = <<>> THEN 0 ELSE TokenLen(Head(s)) + TextLen(Tail(s))

(* The first "]" after position i, 0 if none. *)
FirstClose(s, i) ==
    LET J == {j \in (i + 1)..Len(s) : s[j] = "C"}
    IN  IF J = {} THEN 0 ELSE CHOOSE j \in J : \A k \in J : j <= k

(* /\[send_file:\s*([^\]]+)\]/ matches at i: up to the first "]", with at
   least one character in between. *)
MatchAt(s, i) == s[i] = "O" /\ FirstClose(s, i) > i + 1

(* The matches of the global regex, leftmost first, not overlapping: the
   positions a match starts at. *)
MatchStarts(s) ==
    {i \in 1..Len(s) :
        /\ MatchAt(s, i)
        /\ \A h \in 1..(i - 1) : MatchAt(s, h) => FirstClose(s, h) < i}

(* The positions covered by a match. *)
Matched(s) ==
    {p \in 1..Len(s) : \E i \in MatchStarts(s) : i <= p /\ p <= FirstClose(s, i)}

(* fileMatch[1].trim() of the match that starts at i. *)
PathOf(s, i) == SubSeq(s, i + 1, FirstClose(s, i) - 1)

(* fs.existsSync(filePath) *)
existsSync(path) == path = <<"e">>

(* finalResponse.replace(fileRefRegex, '') *)
Strip(s) ==
    LET keep == {p \in 1..Len(s) : p \notin Matched(s)}
    IN  [q \in 1..Cardinality(keep) |->
            s[CHOOSE p \in keep : Cardinality({r \in keep : r <= p}) = q]]

(* The message contains a [send_file: ...] marker. *)
HasMarker(s) == MatchStarts(s) # {}

ResponseData(tokens, length, notice, files) ==
    [written |-> TRUE, tokens |-> tokens, length |-> length, notice |-> notice,
     files |-> files]

(* processMessage lines 331-371: collect the files, strip the tags,
   truncate, write the response. *)
WriteResponse ==
    /\ writer = "processMessage"
    /\ responseData = NoResponse
    /\ LET s == input.tokens
           outboundFiles == {PathOf(s, i) : i \in {j \in MatchStarts(s) :
                                                     existsSync(PathOf(s, j))}}
           finalResponse == IF outboundFiles # {} THEN Strip(s) ELSE s
           length == TextLen(finalResponse) + input.filler
       IN  responseData' =
              IF length > ResponseLimit
              THEN ResponseData(finalResponse, ResponseKeep + TruncatedNoticeLen,
                                "truncated", outboundFiles)
              ELSE ResponseData(finalResponse, length, "none", outboundFiles)
    /\ UNCHANGED <<writer, input>>
    /\ UNCHANGED exceptRespond

(* sendProgressUpdate(context, `**${config.name}** swarm activated. ...`):
   the input is config.name. *)
sendProgressUpdate ==
    /\ writer = "sendProgressUpdate"
    /\ responseData = NoResponse
    /\ responseData' = ResponseData(input.tokens,
                                    TextLen(input.tokens) + input.filler
                                       + ActivatedTextLen,
                                    "none", {})
    /\ UNCHANGED <<writer, input>>
    /\ UNCHANGED exceptRespond

(* sendFinalResponse(context, response) *)
sendFinalResponse ==
    /\ writer = "sendFinalResponse"
    /\ responseData = NoResponse
    /\ LET length == TextLen(input.tokens) + input.filler
       IN  responseData' =
              IF length > LONG_RESPONSE_THRESHOLD
              THEN ResponseData(input.tokens,
                                LONG_RESPONSE_THRESHOLD + AttachedNoticeLen,
                                "attached", {<<"report">>})
              ELSE ResponseData(input.tokens, length, "none", {})
    /\ UNCHANGED <<writer, input>>
    /\ UNCHANGED exceptRespond

(* Texts: every run of up to MaxTokens tokens, with a filler that brings the
   length near 0, near the cut and near the limit. *)
TokenRuns == UNION {[1..n -> Tokens] : n \in 0..MaxTokens}

Fillers ==
    (0..Slack)
        \cup {ResponseKeep + d : d \in 0..Slack}
        \cup {ResponseLimit - d : d \in 0..Slack}
        \cup {ResponseLimit + d : d \in 0..Slack}

InitRespond ==
    /\ MemoryIdle
    /\ PoolIdle
    /\ ChainIdle
    /\ QueueInit
    /\ SwarmIdle
    /\ ShuffleIdle
    /\ JobIdle
    /\ RouteIdle
    /\ writer \in {"processMessage", "sendProgressUpdate", "sendFinalResponse"}
    /\ input \in [tokens : TokenRuns, filler : Fillers]
    /\ writer # "processMessage" => input.tokens = <<>>
    /\ responseData = NoResponse

NextRespond ==
    \/ WriteResponse
    \/ sendProgressUpdate
    \/ sendFinalResponse

SpecRespond == InitRespond /\ [][NextRespond]_vars

(***************************************************************************)
(* C9 (as stated): no response written by processMessage has a message     *)
(* that contains a [send_file: ...] marker, whether the files named by     *)
(* the markers of the agent's output exist or not.                         *)
(***************************************************************************)
C9_NoMarkerWritten ==
    (writer = "processMessage" /\ responseData.written)
        => ~HasMarker(responseData.tokens)

(***************************************************************************)
(* C10 (as stated): every response written has a message of at most 4000   *)
(* characters, or one that ends with the truncation notice and is at most  *)
(* 4000 long with it, or it references an attached file.                   *)
(***************************************************************************)
C10_TruncationLaw ==
    responseData.written =>
        \/ responseData.length <= ResponseLimit
        \/ responseData.notice = "truncated" /\ responseData.length <= ResponseLimit
        \/ responseData.files # {}

(***************************************************************************)
(* shuffleByKey (swarm/shuffle.ts): the parsed map items are grouped by    *)
(* the values of key_field and oversized groups are split.  An item is     *)
(* known by its position in the parsed list; mapOutput[i] is the value of  *)
(* its key field.                                                          *)
(***************************************************************************)
KeyFieldValues ==
    LET Undefined == [kind |-> "undefined"]
        Scalar(v) == [kind |-> "scalar", v |-> v]
        Array(v) == [kind |-> "array", v |-> v]
    IN  { Undefined, Scalar("a"), Scalar("A "), Scalar("a_part1"), Scalar(" "),
          Array(<<>>), Array(<<"a", "a_part1">>), Array(<<"a_part1", "A ">>),
          Array(<<"a", "a">>), Array(<<" ", "a">>) }

max_partition_size == 200

(* String(v).toLowerCase().trim() on the key values used here *)
LowerTrim(v) ==
    CASE v = "A " -> "a"
      [] v = " " -> ""
      [] OTHER -> v

extractKeys(value) ==
    IF value.kind = "undefined" THEN <<>>
    ELSE IF value.kind = "array"
         THEN SelectSeq([i \in 1..Len(value.v) |-> LowerTrim(value.v[i])],
                        LAMBDA k : k # "")
         ELSE SelectSeq(<<LowerTrim(value.v)>>, LAMBDA k : k # "")

(* A Map: entries in insertion order; set() of a present key keeps its place *)
MapHas(map, key) == \E i \in 1..Len(map) : map[i].key = key

MapGet(map, key) ==
    IF MapHas(map, key)
    THEN map[CHOOSE i \in 1..Len(map) : map[i].key = key].items
    ELSE <<>>

MapSet(map, key, items) ==
    IF MapHas(map, key)
    THEN [i \in 1..Len(map) |->
            IF map[i].key = key THEN [key |-> key, items |-> items] ELSE map[i]]
    ELSE Append(map, [key |-> key, items |-> items])

RECURSIVE PushUnder(_, _, _)
PushUnder(partitions, keys, item) ==
    IF keys = <<>> THEN partitions
    ELSE PushUnder(MapSet(partitions, Head(keys),
                          Append(MapGet(partitions, Head(keys)), item)),
                   Tail(keys), item)

multiKeyOf(config) ==
    IF config.multi_key = "unset" THEN "duplicate" ELSE config.multi_key

maxPartitionSizeOf(config) ==
    IF config.max_partition_size = 0 THEN max_partition_size
    ELSE config.max_partition_size

keysToUseFirst(keys, config) == <<keys[1]>>

keysToUse(keys, config) ==
    IF multiKeyOf(config) = "first" THEN <<keys[1]>> ELSE keys

(* the loop over the items, from item i on *)
RECURSIVE GroupFrom(_, _, _, _)
GroupFrom(i, items, config, acc) ==
    IF i > Len(items) THEN acc
    ELSE IF extractKeys(items[i]) = <<>>
         THEN GroupFrom(i + 1, items, config,
                        [acc EXCEPT !.unkeyed = Append(@, i)])
         ELSE GroupFrom(i + 1, items, config,
                [acc EXCEPT
                   !.partitions = PushUnder(@, keysToUse(extractKeys(items[i]), config), i),
                   !.duplicatedItems =
                       IF Len(keysToUse(extractKeys(items[i]), config)) > 1
                       THEN @ + 1 ELSE @])

Grouped(items, config) ==
    GroupFrom(1, items, config,
              [partitions |-> <<>>, unkeyed |-> <<>>, duplicatedItems |-> 0])

Chunks(partitionItems, max) == (Len(partitionItems) + max - 1) \div max

SubKey(key, n) == key \o "_part" \o ToString(n)

Slice(s, from, to) ==
    SubSeq(s, from + 1, IF to < Len(s) THEN to ELSE Len(s))

RECURSIVE SetChunks(_, _, _, _, _)
SetChunks(final, key, partitionItems, i, max) ==
    IF i >= Chunks(partitionItems, max) THEN final
    ELSE SetChunks(MapSet(final, SubKey(key, i + 1),
                          Slice(partitionItems, i * max, (i + 1) * max)),
                   key, partitionItems, i + 1, max)

(* the loop over the grouped partitions, from entry p on *)
RECURSIVE SubSplitFrom(_, _, _, _)
SubSplitFrom(p, partitions, max, final) ==
    IF p > Len(partitions) THEN final
    ELSE IF Len(partitions[p].items) <= max
         THEN SubSplitFrom(p + 1, partitions, max,
                           MapSet(final, partitions[p].key, partitions[p].items))
         ELSE SubSplitFrom(p + 1, partitions, max,
                           SetChunks(final, partitions[p].key, partitions[p].items, 0, max))

finalPartitions(items, config) ==
    SubSplitFrom(1, Grouped(items, config).partitions, maxPartitionSizeOf(config), <<>>)

shuffleByKey ==
    /\ shuffled = NoShuffle
    /\ shuffled' = [done |-> TRUE,
                    partitions |-> finalPartitions(mapOutput, shuffleConfig),
                    unkeyed |-> Grouped(mapOutput, shuffleConfig).unkeyed,
                    totalItems |-> Len(mapOutput),
                    duplicatedItems |-> Grouped(mapOutput, shuffleConfig).duplicatedItems]
    /\ UNCHANGED <<mapOutput, shuffleConfig>>
    /\ UNCHANGED exceptShuffle

InitShuffle ==
    /\ MemoryIdle
    /\ PoolIdle
    /\ ChainIdle
    /\ QueueInit
    /\ SwarmIdle
    /\ RespondIdle
    /\ JobIdle
    /\ RouteIdle
    /\ mapOutput \in UNION {[1..n -> KeyFieldValues] : n \in 0..MaxItems}
    /\ shuffleConfig \in [multi_key : {"unset", "duplicate", "first"},
                          max_partition_size : 0..MaxPartitionSize]
    /\ shuffled = NoShuffle

SpecShuffle == InitShuffle /\ [][shuffleByKey]_vars

(* the keys of the partitions before the sub-split, and the oversized ones *)
PreSplit == Grouped(mapOutput, shuffleConfig).partitions

Oversized(k) ==
    /\ MapHas(PreSplit, k)
    /\ Len(MapGet(PreSplit, k)) > maxPartitionSizeOf(shuffleConfig)

RECURSIVE PartsOf(_, _, _)
PartsOf(map, k, n) ==
    IF MapHas(map, SubKey(k, n))
    THEN MapGet(map, SubKey(k, n)) \o PartsOf(map, k, n + 1)
    ELSE <<>>

PreSplitKeys == {PreSplit[p].key : p \in 1..Len(PreSplit)}

(* C11: once shuffleByKey has returned, for every key whose group exceeds  *)
(* max_partition_size the items of k_part1, k_part2, ... found in the      *)
(* returned map, concatenated, are the group of k before the split, and no *)
(* such sub-partition holds more than max_partition_size items.            *)
C11_SubSplitPreserves ==
    shuffled.done =>
        \A k \in PreSplitKeys :
            Oversized(k) =>
                /\ PartsOf(shuffled.partitions, k, 1) = MapGet(PreSplit, k)
                /\ \A n \in 1..Chunks(MapGet(PreSplit, k), maxPartitionSizeOf(shuffleConfig)) :
                       Len(MapGet(shuffled.partitions, SubKey(k, n)))
                           <= maxPartitionSizeOf(shuffleConfig)

Range(s) == {s[i] : i \in 1..Len(s)}

KeysOfItem(i) == Range(extractKeys(mapOutput[i]))

ReturnedKeys == {shuffled.partitions[p].key : p \in 1..Len(shuffled.partitions)}

NoneOversized == \A k \in PreSplitKeys : ~Oversized(k)

(* C12: with multi_key = duplicate and no group above max_partition_size,  *)
(* every parsed item that has a non-empty key is in the returned partition *)
(* of each of its lowercased, trimmed keys and in no other partition.      *)
C12_ShuffleCompleteness ==
    (shuffled.done /\ multiKeyOf(shuffleConfig) = "duplicate" /\ NoneOversized) =>
        \A i \in 1..Len(mapOutput) :
            /\ \A k \in KeysOfItem(i) :
                   /\ k \in ReturnedKeys
                   /\ i \in Range(MapGet(shuffled.partitions, k))
            /\ \A k \in ReturnedKeys \ KeysOfItem(i) :
                   i \notin Range(MapGet(shuffled.partitions, k))

C12_Witness ==
    /\ shuffled.done
    /\ multiKeyOf(shuffleConfig) = "duplicate"
    /\ NoneOversized
    /\ \E i, j \in 1..Len(mapOutput) :
           /\ KeysOfItem(i) = {"a", "a_part1"}
           /\ KeysOfItem(j) = {"a"}
           /\ mapOutput[j].v = "A "
           /\ Range(MapGet(shuffled.partitions, "a")) = {i, j}
           /\ Range(MapGet(shuffled.partitions, "a_part1")) = {i}

(***************************************************************************)
(* processSwarmJob (queue-processor.ts, swarm section): one job from the   *)
(* creation of its record to its final response.  The worker pool          *)
(* (swarm/worker-pool.ts) settles the batches one at a time and calls      *)
(* onBatchComplete after each; batchResults counts the BatchResult values  *)
(* by kind: success with a text, success with an empty text, failure.      *)
(***************************************************************************)
(* Mutant: one more retry than the defaults allow. *)
SWARM_DEFAULTS_3Retries ==
    [concurrency |-> 5, batch_size |-> 25, progress_interval |-> 10,
     max_retries |-> 3, max_items |-> 10000]

SWARM_DEFAULTS ==
    [concurrency |-> 5, batch_size |-> 25, progress_interval |-> 10,
     max_retries |-> 2, max_items |-> 10000]

(* Mutant: the configured batch_size is ignored. *)
batchSizeOfDefault(config) == SWARM_DEFAULTS.batch_size

(* config.batch_size || SWARM_DEFAULTS.batch_size *)
batchSizeOf(config) ==
    IF config.batch_size = 0 THEN SWARM_DEFAULTS.batch_size ELSE config.batch_size

(* config.progress_interval || SWARM_DEFAULTS.progress_interval *)
progressIntervalOf(config) ==
    IF config.progress_interval = Absent \/ config.progress_interval = 0
    THEN SWARM_DEFAULTS.progress_interval
    ELSE config.progress_interval

TooManyNever(items) == FALSE

TooMany(items) == items > SWARM_DEFAULTS.max_items

(* splitIntoBatches: the number of batches *)
BatchCount(items, batchSize) == (items + batchSize - 1) \div batchSize

SettledBatches == batchResults.text + batchResults.empty + batchResults.failed

(* the catch block: status failed, the failure text as final response *)
Caught(error) ==
    /\ job' = [job EXCEPT !.status = "failed", !.error = error]
    /\ sent' = Append(sent, [kind |-> "failed", error |-> error])
    /\ jobPc' = "done"

StartJob ==
    /\ jobPc = "created"
    /\ sent' = Append(sent, [kind |-> "activated"])
    /\ job' = [job EXCEPT !.status = "fetching_input"]
    /\ jobPc' = "fetching"
    /\ UNCHANGED <<jobInput, batchResults, successResults, lastProgressUpdate>>
    /\ UNCHANGED exceptJob

InputResolved ==
    /\ jobPc = "fetching"
    /\ IF jobInput.items = 0 THEN Caught("NoInput")
       ELSE IF TooMany(jobInput.items) THEN Caught("TooManyItems")
       ELSE /\ job' = [job EXCEPT !.status = "splitting",
                                  !.total = BatchCount(jobInput.items,
                                                       batchSizeOf(jobInput.config))]
            /\ sent' = Append(sent, [kind |-> "processing"])
            /\ jobPc' = "split"
    /\ UNCHANGED <<jobInput, batchResults, successResults, lastProgressUpdate>>
    /\ UNCHANGED exceptJob

StartMap ==
    /\ jobPc = "split"
    /\ job' = [job EXCEPT !.status = "processing"]
    /\ jobPc' = "map"
    /\ UNCHANGED <<jobInput, batchResults, successResults, lastProgressUpdate, sent>>
    /\ UNCHANGED exceptJob

(* one batch reaches its final state; onBatchComplete runs *)
BatchSettles ==
    /\ jobPc = "map"
    /\ SettledBatches < job.total
    /\ \E outcome \in {"text", "empty", "failed"} :
         LET completed == IF outcome = "failed" THEN job.completed ELSE job.completed + 1
             failed == IF outcome = "failed" THEN job.failed + 1 ELSE job.failed
             due == /\ progressIntervalOf(jobInput.config) > 0
                    /\ completed - lastProgressUpdate >= progressIntervalOf(jobInput.config)
         IN  /\ batchResults' = [batchResults EXCEPT ![outcome] = @ + 1]
             /\ job' = [job EXCEPT !.completed = completed, !.failed = failed]
             /\ lastProgressUpdate' = IF due THEN completed ELSE lastProgressUpdate
             /\ sent' = IF due
                        THEN Append(sent, [kind |-> "progress", completed |-> completed])
                        ELSE sent
    /\ UNCHANGED <<jobInput, successResults, jobPc>>
    /\ UNCHANGED exceptJob

(* if (br.success && br.result) successResults.push(br.result) *)
Collect(results) == [text |-> results.text, empty |-> 0, failed |-> 0]

(* processAllBatches has returned: collect, then shuffle or reduce *)
PoolReturns ==
    /\ jobPc = "map"
    /\ SettledBatches = job.total
    /\ successResults' = Collect(batchResults)
    /\ IF Collect(batchResults).text = 0
       THEN Caught("AllBatchesFailed")
       ELSE IF jobInput.config.shuffle
            THEN /\ job' = [job EXCEPT !.status = "shuffling"]
                 /\ sent' = Append(sent, [kind |-> "shuffling"])
                 /\ jobPc' = "shuffle"
            ELSE /\ job' = [job EXCEPT !.status = "reducing"]
                 /\ sent' = IF Collect(batchResults).text > 1
                            THEN Append(sent, [kind |-> "aggregating"])
                            ELSE sent
                 /\ jobPc' = "reduce"
    /\ UNCHANGED <<jobInput, batchResults, lastProgressUpdate>>
    /\ UNCHANGED exceptJob

ShuffleDone ==
    /\ jobPc = "shuffle"
    /\ job' = [job EXCEPT !.status = "reducing"]
    /\ sent' = Append(sent, [kind |-> "shuffled"])
    /\ jobPc' = "reduce"
    /\ UNCHANGED <<jobInput, batchResults, successResults, lastProgressUpdate>>
    /\ UNCHANGED exceptJob

ReduceDone ==
    /\ jobPc = "reduce"
    /\ job' = [job EXCEPT !.status = "completed"]
    /\ jobPc' = "output"
    /\ UNCHANGED <<jobInput, batchResults, successResults, lastProgressUpdate, sent>>
    /\ UNCHANGED exceptJob

(* sendFinalResponse(context, fullResponse), still inside the try: a long  *)
(* response is first saved under FILES_DIR, and that write can throw       *)
Output ==
    /\ jobPc = "output"
    /\ IF jobInput.response = "long" /\ ~jobInput.filesDir
       THEN Caught("write")
       ELSE /\ sent' = Append(sent, [kind |-> "completed"])
            /\ jobPc' = "done"
            /\ UNCHANGED job
    /\ UNCHANGED <<jobInput, batchResults, successResults, lastProgressUpdate>>
    /\ UNCHANGED exceptJob

ItemCounts == (0..MaxBatches) \cup {SWARM_DEFAULTS.max_items - 1,
                                    SWARM_DEFAULTS.max_items,
                                    SWARM_DEFAULTS.max_items + 1}

SwarmConfigs ==
    [batch_size : {0, 1, SWARM_DEFAULTS.max_items \div 2},
     progress_interval : {Absent, 0, 1, 4},
     shuffle : BOOLEAN]

InitJob ==
    /\ MemoryIdle
    /\ PoolIdle
    /\ ChainIdle
    /\ QueueInit
    /\ SwarmIdle
    /\ RespondIdle
    /\ ShuffleIdle
    /\ RouteIdle
    /\ jobInput \in [items : ItemCounts, config : SwarmConfigs,
                     response : {"short", "long"}, filesDir : BOOLEAN]
    /\ jobInput.items <= SWARM_DEFAULTS.max_items =>
           BatchCount(jobInput.items, batchSizeOf(jobInput.config)) <= MaxBatches
    /\ jobInput.response = "short" => jobInput.filesDir
    /\ job = NewJob
    /\ jobPc = "created"
    /\ batchResults = NoResults
    /\ successResults = NoResults
    /\ lastProgressUpdate = 0
    /\ sent = <<>>

NextJob ==
    \/ StartJob
    \/ InputResolved
    \/ StartMap
    \/ BatchSettles
    \/ PoolReturns
    \/ ShuffleDone
    \/ ReduceDone
    \/ Output

SpecJob == InitJob /\ [][NextJob]_vars

(* processAllBatches has returned and its results have been collected *)
PoolReturned ==
    /\ jobPc \in {"shuffle", "reduce", "output", "done"}
    /\ job.total > 0

Succeeded == batchResults.text + batchResults.empty

(* C13: after the map phase the job fails with all-batches-failed exactly  *)
(* when no batch succeeded; otherwise the results handed downstream are    *)
(* one per successful batch and none of a failed batch.                    *)
C13_PartialTolerance ==
    PoolReturned =>
        /\ (job.error = "AllBatchesFailed") <=> (Succeeded = 0)
        /\ Succeeded >= 1 =>
               successResults = [text |-> batchResults.text,
                                 empty |-> batchResults.empty,
                                 failed |-> 0]

FinalResponses == SelectSeq(sent, LAMBDA m : m.kind \in {"completed", "failed"})

(* what a job that failed on its input with the given error looks like *)
FailedOnInput(error) ==
    /\ jobPc \in {"created", "fetching", "done"}
    /\ job.total = 0
    /\ SettledBatches = 0
    /\ successResults = NoResults
    /\ jobPc = "done" =>
           /\ job.status = "failed"
           /\ job.error = error
           /\ FinalResponses = <<[kind |-> "failed", error |-> error]>>

ProgressPoints ==
    LET periodic == SelectSeq(sent, LAMBDA m : m.kind = "progress")
    IN  [i \in 1..Len(periodic) |-> periodic[i].completed]

(* C15: periodic progress messages are written only when progress_interval *)
(* is above 0 (10 when it is not configured): with progress_interval = 0   *)
(* none is written however many batches complete, and with n > 0 one is    *)
(* written each time n more batches have completed since the last one.     *)
C15_ProgressReporting ==
    LET configured == jobInput.config.progress_interval
        n == IF configured = Absent THEN 10 ELSE configured
    IN  IF n = 0
        THEN ProgressPoints = <<>>
        ELSE ProgressPoints = [i \in 1..(job.completed \div n) |-> i * n]

StatusEdge(from, to) ==
    \/ from = "initializing" /\ to = "fetching_input"
    \/ from = "fetching_input" /\ to = "splitting"
    \/ from = "splitting" /\ to = "processing"
    \/ from = "processing" /\ to = "shuffling" /\ jobInput.config.shuffle
    \/ from = "processing" /\ to = "reducing" /\ ~jobInput.config.shuffle
    \/ from = "shuffling" /\ to = "reducing"
    \/ from = "reducing" /\ to = "completed"
    \/ from \notin {"completed", "failed"} /\ to = "failed"

(* C17: the status of a SwarmJob changes only along initializing ->        *)
(* fetching_input -> splitting -> processing -> (shuffling, when shuffle   *)
(* is configured) -> reducing -> completed, or from a non-terminal status  *)
(* to failed; once completed or failed it never changes again.             *)
C17_StatusMachine ==
    [][job.status' # job.status => StatusEdge(job.status, job.status')]_vars

(* C16: when the final merge starts, partitionResults holds exactly one    *)
(* entry for each partition handed to the partition reduce, the unkeyed    *)
(* one included: the reducer's text or the failure placeholder.            *)
C16_OneEntryPerPartition ==
    reducePc \in {"merge", "merged", "concatenated"} =>
        /\ Len(partitionResults) = NTasks
        /\ \A t \in 1..NTasks :
               Cardinality({i \in 1..Len(partitionResults) :
                               partitionResults[i].key = KeyOfTask(t)}) = 1

ResponsesFor(f, out) == {i \in 1..Len(out) : out[i].mid = f}

Apologized(f) == \E i \in ResponsesFor(f, outgoing) : outgoing[i].kind = "apology"

RolledBackNow(f) ==
    /\ task[f].pc = "moved"
    /\ task'[f].pc = "none"
    /\ crashes' = crashes

AgentIds == <<"default", "coder", "error">>

TeamIds == {"dev", "ops"}

(* Object.entries(teams): the teams in the order of settings.json *)
TeamOrder == <<"dev", "ops">>

(* t.agents: both teams are led by `coder` *)
teamAgentsOf(team) ==
    IF team = "dev" THEN {"coder", "default"} ELSE {"coder", "error"}

SwarmIds == {"scan"}

leader_agent(team) == "coder"

(* Object.keys(agents)[0] *)
FirstAgent(cfg) ==
    AgentIds[CHOOSE i \in 1..Len(AgentIds) :
                /\ AgentIds[i] \in cfg.agents
                /\ \A j \in 1..(i - 1) : AgentIds[j] \notin cfg.agents]

(* Routing Resolver, |T| = 0: `default`, or the first agent if none is named so *)
DefaultOrFirst(cfg) ==
    IF "default" \in cfg.agents THEN "default" ELSE FirstAgent(cfg)

(* lib/routing parseAgentRouting for the configuration cfg: it is handed    *)
(* the agents and the teams, never the swarms.                              *)
parseAgentRoutingIn(m, cfg) ==
    LET T == SelectSeq(m.at, LAMBDA x : x \in cfg.agents \cup cfg.teams)
    IN  IF Len(T) = 0 THEN [agentId |-> DefaultOrFirst(cfg), isTeam |-> FALSE]
        ELSE IF Len(T) > 1 THEN [agentId |-> "error", isTeam |-> FALSE]
        ELSE IF T[1] \in cfg.agents THEN [agentId |-> T[1], isTeam |-> FALSE]
        ELSE [agentId |-> leader_agent(T[1]), isTeam |-> TRUE]

(* Mutant: the peek ignores the pre-routed agent of the message. *)
peekAgentIdInNoHint(m, cfg) == parseAgentRoutingIn(m, cfg).agentId

(* peekAgentId for the configuration cfg (the file holds parseable JSON) *)
peekAgentIdIn(m, cfg) ==
    IF m.agent \in cfg.agents THEN m.agent
    ELSE LET routing == parseAgentRoutingIn(m, cfg)
         IN  IF routing.agentId = "" THEN "default" ELSE routing.agentId

(* the first configured team, in the order of settings.json, that fits *)
FirstTeam(cfg, Fits(_)) ==
    LET fit == {i \in 1..Len(TeamOrder) : TeamOrder[i] \in cfg.teams /\ Fits(TeamOrder[i])}
    IN  IF fit = {} THEN NullContext
        ELSE TeamOrder[CHOOSE i \in fit : \A j \in fit : i <= j]

(* lib/routing findTeamForAgent: the first team the agent is a member of *)
findTeamForAgentIn(agentId, cfg) ==
    FirstTeam(cfg, LAMBDA t : agentId \in teamAgentsOf(t))

(* processMessage lines 123-138: the team context of the routed message *)
teamContextOf(isTeamRouted, agentId, cfg) ==
    LET led == FirstTeam(cfg, LAMBDA t : /\ leader_agent(t) = agentId
                                         /\ agentId \in teamAgentsOf(t))
    IN  IF isTeamRouted /\ led # NullContext THEN led
        ELSE findTeamForAgentIn(agentId, cfg)

(* processQueue: the key of the promise chain the file is appended to *)
processQueueRoute ==
    /\ peeked = NoKey
    /\ peeked' = peekAgentIdIn(inbound, settings)
    /\ UNCHANGED <<settings, inbound, routed, teamContext>>
    /\ UNCHANGED exceptRoute

processMessageRoute ==
    /\ peeked # NoKey
    /\ routed = NoRoute
    /\ LET routing == IF inbound.agent \in settings.agents
                      THEN [agentId |-> inbound.agent, isTeam |-> FALSE]
                      ELSE parseAgentRoutingIn(inbound, settings)
           agentId == IF routing.agentId \in settings.agents THEN routing.agentId
                      ELSE IF "default" \in settings.agents THEN "default"
                      ELSE FirstAgent(settings)
       IN  IF routing.agentId = "error"
           THEN /\ routed' = [branch |-> "easter", agentId |-> "error"]
                /\ teamContext' = NullContext
           ELSE /\ routed' = [branch |-> "invoke", agentId |-> agentId]
                /\ teamContext' = teamContextOf(routing.isTeam, agentId, settings)
    /\ UNCHANGED <<settings, inbound, peeked>>
    /\ UNCHANGED exceptRoute

InitRoute ==
    /\ MemoryIdle
    /\ PoolIdle
    /\ ChainIdle
    /\ QueueInit
    /\ SwarmIdle
    /\ RespondIdle
    /\ ShuffleIdle
    /\ JobIdle
    /\ settings \in [agents : SUBSET Range(AgentIds) \ {{}}, teams : SUBSET TeamIds,
                     swarms : SUBSET SwarmIds]
    /\ \A t \in settings.teams : leader_agent(t) \in settings.agents
    /\ inbound \in [agent : {""} \cup Range(AgentIds),
                    at : UNION {[1..n -> Range(AgentIds) \cup TeamIds \cup SwarmIds
                                         \cup {"nobody"}] :
                                   n \in 0..MaxMentions}]
    /\ peeked = NoKey
    /\ routed = NoRoute
    /\ teamContext = Unrouted

NextRoute ==
    \/ processQueueRoute
    \/ processMessageRoute

SpecRoute == InitRoute /\ [][NextRoute]_vars

(* the configured agent and team ids matched by the leading @tokens *)
MatchedIds == SelectSeq(inbound.at, LAMBDA x : x \in settings.agents \cup settings.teams)

(* C20: the easter-egg branch is taken exactly when the leading @tokens of  *)
(* a message that is not pre-routed match more than one agent or team id,  *)
(* and a message addressed to exactly one configured agent, by its @token  *)
(* or pre-routed, is delivered to that agent, whatever its id.             *)
C20_RoutingSentinel ==
    routed # NoRoute =>
        IF inbound.agent \in settings.agents
        THEN routed = [branch |-> "invoke", agentId |-> inbound.agent]
        ELSE /\ (routed.branch = "easter") <=> (Len(MatchedIds) > 1)
             /\ \A a \in settings.agents :
                    MatchedIds = <<a>> => routed = [branch |-> "invoke", agentId |-> a]

AddressedToSwarm ==
    /\ inbound.agent \notin settings.agents
    /\ Len(inbound.at) >= 1
    /\ inbound.at[1] \in settings.swarms
    /\ MatchedIds = <<>>

SwarmKey(swarmId) == "swarm:" \o swarmId

(* C22: a message addressed to a swarm is chained under the synthetic key   *)
(* swarm:<swarmId>, never under the key of an agent, so that the swarm job  *)
(* does not hold up the conversational messages of its worker agent.        *)
C22_SwarmIsolation ==
    (peeked # NoKey /\ AddressedToSwarm) =>
        /\ peeked = SwarmKey(inbound.at[1])
        /\ peeked \notin settings.agents

(* the file has been moved to processing, or its task awaits its chain slot *)
Tracked(f) == f \in processing \/ task[f].pc = "waiting"

GlobalFlag == "global"

FlagNames == {GlobalFlag} \cup Agents

(* one call of invokeAgent: the agent, the reset argument, the agent whose *)
(* id prefixes the message (NoAgent: the user's message), fan-out or not   *)
Call(p, agentId, reset, from, fan) ==
    [conv |-> p, agentId |-> agentId, reset |-> reset, from |-> from, fan |-> fan]

(* Mutant: an observed flag file is left in place. *)
unlinkNone(flags, observed) == flags

(* fs.unlinkSync of the flag files that were observed *)
unlink(flags, observed) == flags \ observed

(* Mutant: a fan-out invocation never resets. *)
mShouldResetNever(flags, teammateId) == FALSE

(* mShouldReset of a fan-out invocation *)
mShouldReset(flags, teammateId) == teammateId \in flags

(* Mutant: the handoff message names the agent the message was routed to. *)
handoffFromFirst(c) == c.agentId

(* the agent named by `[Message from teammate @...]` of a single handoff *)
handoffFrom(c) == c.chainSteps[Len(c.chainSteps)]

(* Mutant: a chain of MaxSteps - 1 steps is cut off. *)
chainGoesOnBounded(mentions, steps) == Len(mentions) = 1 /\ Len(steps) < MaxSteps - 1

(* the while (true) loop goes on after a step: exactly one teammate mentioned *)
chainGoesOn(mentions, steps) == Len(mentions) = 1

(* the calls of invokeAgent of a fan-out, in the order of the mentions *)
FanCalls(p, from, mentions, flags) ==
    [i \in 1..Len(mentions) |->
        Call(p, mentions[i], mShouldReset(flags, mentions[i]), from, TRUE)]

(* the number of calls with the reset argument true *)
Resets(calls) == Cardinality({i \in 1..Len(calls) : calls[i].reset})

(* the chain steps recorded by the calls other than p *)
StepsBeside(p) == Len(conv[3 - p].chainSteps)

(* Mutant: each callback of the fan-out pushes its result when it ends. *)
fanOutResultsAsCompleted(mentions, completed) == completed

(* fanOutResults of Promise.all: the agent of the result of each callback, *)
(* in the order of the array of promises, whatever the order of completion *)
fanOutResults(mentions, completed) ==
    [i \in 1..Len(mentions) |-> mentions[i]]

(* finalResponse of a chain: the agent of each section, prefixed or not *)
aggregate(steps) ==
    IF Len(steps) = 1
    THEN <<[agentId |-> steps[1], prefixed |-> FALSE]>>
    ELSE [i \in 1..Len(steps) |-> [agentId |-> steps[i], prefixed |-> TRUE]]

(* An operator places a reset flag file. *)
PlaceFlag ==
    /\ placed < MaxPlacings
    /\ \E x \in FlagNames \ resetFlags : resetFlags' = resetFlags \cup {x}
    /\ placed' = placed + 1
    /\ invoked' = <<>>
    /\ UNCHANGED <<conv, fresh>>
    /\ UNCHANGED exceptChain

(* processMessage lines 140-194: the reset check and the first invokeAgent. *)
ProcessStart(p) ==
    LET c == conv[p]
        shouldReset == GlobalFlag \in resetFlags \/ c.agentId \in resetFlags
    IN  /\ c.pc = "start"
        /\ IF c.pred = 0 THEN TRUE ELSE conv[c.pred].pc = "done"
        /\ resetFlags' = IF shouldReset
                         THEN unlink(resetFlags, {GlobalFlag, c.agentId})
                         ELSE resetFlags
        /\ invoked' = <<Call(p, c.agentId, shouldReset, NoAgent, FALSE)>>
        /\ conv' = [conv EXCEPT ![p].pc = "invoking", ![p].cur = c.agentId]
        /\ fresh' = fresh + Resets(invoked')
        /\ UNCHANGED placed
        /\ UNCHANGED exceptChain

(* invokeAgent returns: single agent (153-161), or one turn of the chain   *)
(* loop (201-263) up to the next await.                                     *)
InvokeReturns(p) ==
    LET c == conv[p]
    IN  /\ c.pc = "invoking"
        /\ \/ /\ ~c.team
              /\ conv' = [conv EXCEPT ![p].pc = "done", ![p].cur = NoAgent,
                                      ![p].finalResponse =
                                          <<[agentId |-> c.cur, prefixed |-> FALSE]>>]
              /\ invoked' = <<>>
              /\ UNCHANGED resetFlags
           \/ /\ c.team
              /\ \E ms \in Mentions(c.cur) :
                   LET steps == Append(c.chainSteps, c.cur)
                       c1 == [c EXCEPT !.chainSteps = steps, !.mentions = ms]
                   IN  /\ Len(ms) = 1 => Len(steps) + StepsBeside(p) < MaxSteps
                       /\ IF Len(ms) = 0 \/ (Len(ms) = 1 /\ ~chainGoesOn(ms, steps)) THEN
                             /\ conv' = [conv EXCEPT ![p] =
                                            [c1 EXCEPT !.pc = "done", !.cur = NoAgent,
                                                       !.finalResponse = aggregate(steps)]]
                             /\ invoked' = <<>>
                             /\ UNCHANGED resetFlags
                          ELSE IF Len(ms) = 1 THEN
                             LET currentShouldReset == ms[1] \in resetFlags
                             IN  /\ resetFlags' = IF currentShouldReset
                                                  THEN unlink(resetFlags, {ms[1]})
                                                  ELSE resetFlags
                                 /\ invoked' = <<Call(p, ms[1], currentShouldReset,
                                                     handoffFrom(c1), FALSE)>>
                                 /\ conv' = [conv EXCEPT ![p] = [c1 EXCEPT !.cur = ms[1]]]
                          ELSE
                             /\ resetFlags' = unlink(resetFlags,
                                    {ms[i] : i \in 1..Len(ms)} \cap resetFlags)
                             /\ invoked' = FanCalls(p, c.cur, ms, resetFlags)
                             /\ conv' = [conv EXCEPT ![p] =
                                            [c1 EXCEPT !.pc = "fanout",
                                                       !.pend = {ms[i] : i \in 1..Len(ms)}]]
        /\ fresh' = fresh + Resets(invoked')
        /\ UNCHANGED placed
        /\ UNCHANGED exceptChain

(* One invokeAgent of the fan-out returns; when the last has returned,      *)
(* Promise.all resolves, the results are pushed and the responses of the    *)
(* chain are aggregated.                                                     *)
FanReturns(p) ==
    LET c == conv[p]
    IN  /\ c.pc = "fanout"
        /\ \E a \in c.pend :
             LET completed == Append(c.completed, a)
                 steps == c.chainSteps \o fanOutResults(c.mentions, completed)
             IN  conv' = [conv EXCEPT ![p] =
                    IF c.pend = {a}
                    THEN [c EXCEPT !.pc = "done", !.pend = {}, !.cur = NoAgent,
                                   !.completed = completed,
                                   !.chainSteps = steps,
                                   !.finalResponse = aggregate(steps)]
                    ELSE [c EXCEPT !.pend = c.pend \ {a}, !.completed = completed]]
        /\ invoked' = <<>>
        /\ UNCHANGED <<resetFlags, placed, fresh>>
        /\ UNCHANGED exceptChain

InitChain ==
    /\ MemoryIdle
    /\ PoolIdle
    /\ fresh = 0
    /\ QueueInit
    /\ SwarmIdle
    /\ RespondIdle
    /\ ShuffleIdle
    /\ JobIdle
    /\ RouteIdle
    /\ resetFlags = {}
    /\ placed = 0
    /\ invoked = <<>>
    /\ \E a1 \in {TeamLeader, "default"}, a2 \in Agents :
         conv = [p \in Convs |->
                   [NoConv EXCEPT !.pc = "start",
                                  !.agentId = IF p = 1 THEN a1 ELSE a2,
                                  !.team = findTeamForAgent(IF p = 1 THEN a1 ELSE a2),
                                  !.pred = IF p = 2 /\ a1 = a2 THEN 1 ELSE 0]]

StartSomeConv == \E p \in Convs : ProcessStart(p)
ReturnSomeConv == \E p \in Convs : InvokeReturns(p)
FanReturnSome == \E p \in Convs : FanReturns(p)

NextChain ==
    \/ PlaceFlag
    \/ StartSomeConv
    \/ ReturnSomeConv
    \/ FanReturnSome

SpecChain == InitChain /\ [][NextChain]_vars

(* the call c made by a step from the flags `flags` consumed its flag(s) *)
ResetAsFlagged(c, flags) ==
    IF c.from = NoAgent
    THEN /\ c.reset <=> (GlobalFlag \in flags \/ c.agentId \in flags)
         /\ c.reset => (GlobalFlag \notin resetFlags' /\ c.agentId \notin resetFlags')
    ELSE /\ c.reset <=> c.agentId \in flags
         /\ c.agentId \notin resetFlags'

(* C24: a reset flag is deleted when it is observed.  Step 0 resets iff    *)
(* the global flag or the flag of the routed agent exists, and both are    *)
(* then deleted; a later step for teammate b resets iff b's own flag       *)
(* exists at that moment, and that flag is then deleted.  Whatever the     *)
(* interleaving of the calls, the invocations with reset never outnumber   *)
(* the flags placed.                                                        *)
C24_ResetConsumption ==
    /\ [](fresh <= placed)
    /\ [][\A i \in 1..Len(invoked') : ResetAsFlagged(invoked'[i], resetFlags)]_vars

C24_Witness ==
    /\ fresh = 2
    /\ placed = 2
    /\ \E p, q \in Convs :
         /\ p # q
         /\ conv[p].pc = "invoking" /\ conv[q].pc = "invoking"
         /\ Len(conv[p].chainSteps) >= 1

(* the chain of call p has recorded a step and is (still) a team chain *)
InChain(p) == conv[p].team /\ conv[p].chainSteps # <<>>

C28_FanOutFresh ==
    \A i \in 1..Len(invoked) : invoked[i].fan => invoked[i].reset

(* C28 (amended): an invocation of a fan-out is made with the reset        *)
(* argument true exactly when the teammate's own reset flag exists when    *)
(* the fan-out starts; the flag is then deleted.                            *)
C28_FanOutResetIffFlag ==
    [][\A i \in 1..Len(invoked') :
          invoked'[i].fan =>
             /\ invoked'[i].reset = (invoked'[i].agentId \in resetFlags)
             /\ invoked'[i].agentId \notin resetFlags']_vars

C28_Witness ==
    /\ Len(invoked) = 2
    /\ invoked[1].fan /\ invoked[1].reset
    /\ invoked[2].fan /\ ~invoked[2].reset

(* the calls of invokeAgent that the latest step made for call p *)
CallsFor(p, calls) == SelectSeq(calls, LAMBDA c : c.conv = p)

(* C29: after a step with k >= 2 mentions the k teammates are invoked, k   *)
(* more steps are recorded in the order of the mentions and nothing is     *)
(* invoked afterwards; after a step with one mention exactly that teammate *)
(* is invoked, with the message prefixed by the id of the agent that just  *)
(* answered; after a step with no mention nothing more is invoked.          *)
C29_MentionHandling ==
    [][\A p \in Convs :
          LET c == conv[p]
              d == conv'[p]
              calls == CallsFor(p, invoked')
          IN  /\ (c.team /\ c.pc = "invoking" /\ d # c) =>
                    /\ Len(d.chainSteps) = Len(c.chainSteps) + 1
                    /\ Len(d.mentions) = 0 => (calls = <<>> /\ d.pc = "done")
                    /\ Len(d.mentions) = 1 =>
                          /\ Len(calls) = 1
                          /\ calls[1].agentId = d.mentions[1]
                          /\ calls[1].from = c.cur
                          /\ d.pc = "invoking"
                    /\ Len(d.mentions) >= 2 =>
                          /\ [i \in 1..Len(calls) |-> calls[i].agentId] = d.mentions
                          /\ d.pc = "fanout"
              /\ (c.pc = "fanout" /\ d # c) =>
                    /\ calls = <<>>
                    /\ d.pc \in {"fanout", "done"}
                    /\ d.pc = "done" => d.chainSteps = c.chainSteps \o c.mentions
              /\ c.pc = "done" => (d = c /\ calls = <<>>)]_vars

C29_Witness ==
    \E p \in Convs :
        /\ conv[p].pc = "done"
        /\ Len(conv[p].chainSteps) = 4
        /\ Len(conv[p].mentions) = 2

(***************************************************************************)
(* Batch split and map phase of processSwarmJob (lines 815-876):           *)
(* splitIntoBatches (swarm/batch-splitter.ts) and processAllBatches        *)
(* (swarm/worker-pool.ts) follow the Swarm Engine section of the           *)
(* specification; batch size, retry limit and the SwarmBatch record are    *)
(* those of queue-processor.ts.                                            *)
(***************************************************************************)
Min(a, b) == IF a < b THEN a ELSE b

(* a SwarmBatch as the split creates it *)
NewBatch(index, items) ==
    [index |-> index, items |-> items, status |-> "pending", result |-> "",
     error |-> 0, retries |-> 0, invocations |-> 0]

(* splitIntoBatches: contiguous batches of batchSize items *)
splitIntoBatches(items, batchSize) ==
    [i \in 1..((Len(items) + batchSize - 1) \div batchSize) |->
        NewBatch(i - 1, SubSeq(items, (i - 1) * batchSize + 1,
                                      Min(i * batchSize, Len(items))))]

(* config.concurrency || SWARM_DEFAULTS.concurrency *)
concurrencyOf(config) ==
    IF config.concurrency = 0 THEN SWARM_DEFAULTS.concurrency ELSE config.concurrency

InFlight == Cardinality({b \in 1..Len(batches) : batches[b].status = "processing"})

Terminal(batch) == batch.status \in {"completed", "failed"}

(* processSwarmJob lines 815-820: job.batches = splitIntoBatches(...) *)
SplitBatches ==
    /\ poolPc = "splitting"
    /\ batches' = splitIntoBatches(poolInput.items, batchSizeOf(poolInput.config))
    /\ poolPc' = "processing"
    /\ UNCHANGED poolInput
    /\ UNCHANGED exceptPool

(* A free worker takes a pending batch and invokes the worker agent. *)
LaunchBatch(b) ==
    /\ poolPc = "processing"
    /\ batches[b].status = "pending"
    /\ InFlight < concurrencyOf(poolInput.config)
    /\ batches' = [batches EXCEPT ![b].status = "processing", ![b].invocations = 1]
    /\ UNCHANGED <<poolInput, poolPc>>
    /\ UNCHANGED exceptPool

(* An invocation ends: success, an error that is retried, or the final     *)
(* failure with the last error (errors are named by their invocation).     *)
AttemptEnds(b) ==
    /\ poolPc = "processing"
    /\ batches[b].status = "processing"
    /\ \E ok \in BOOLEAN :
         LET batch == batches[b]
             after ==
                IF ok THEN [batch EXCEPT !.status = "completed", !.result = "text"]
                ELSE IF batch.retries < SWARM_DEFAULTS.max_retries
                THEN [batch EXCEPT !.retries = @ + 1, !.invocations = @ + 1,
                                   !.error = batch.invocations]
                ELSE [batch EXCEPT !.status = "failed", !.error = batch.invocations]
             all == [batches EXCEPT ![b] = after]
         IN  /\ batches' = all
             /\ poolPc' = IF \A i \in 1..Len(all) : Terminal(all[i])
                          THEN "done" ELSE "processing"
    /\ UNCHANGED poolInput
    /\ UNCHANGED exceptPool

InitPool ==
    /\ MemoryIdle
    /\ QueueInit
    /\ SwarmIdle
    /\ RespondIdle
    /\ ShuffleIdle
    /\ JobIdle
    /\ RouteIdle
    /\ ChainIdle
    /\ poolInput \in [items : {[i \in 1..n |-> i] : n \in 1..MaxInput},
                      config : [batch_size : 0..3, concurrency : 1..MaxConc]]
    /\ batches = <<>>
    /\ poolPc = "splitting"

LaunchSome == \E b \in 1..Len(batches) : LaunchBatch(b)
AttemptSome == \E b \in 1..Len(batches) : AttemptEnds(b)

NextPool ==
    \/ SplitBatches
    \/ LaunchSome
    \/ AttemptSome

(* Invocations terminate and a free worker takes the next pending batch. *)
SpecPool == InitPool /\ [][NextPool]_vars /\ WF_vars(NextPool)

(* C25: a batch is invoked at most 3 times; it is completed by its first   *)
(* successful invocation and failed only by its third failed invocation,   *)
(* with the error of that invocation; the map phase is complete exactly    *)
(* when every batch is completed or failed, and that always happens.       *)
C25_BatchRetry ==
    /\ [](\A b \in 1..Len(batches) :
             LET batch == batches[b]
             IN  /\ batch.invocations <= 3
                 /\ batch.status = "failed" =>
                        (batch.invocations = 3 /\ batch.error = 3)
                 /\ batch.status = "completed" => batch.result = "text")
    /\ [][\A b \in 1..Len(batches) :
             Terminal(batches[b]) => batches'[b] = batches[b]]_vars
    /\ [](poolPc = "done" <=>
             (batches # <<>> /\ \A b \in 1..Len(batches) : Terminal(batches[b])))
    /\ <>(poolPc = "done")

C25_Witness ==
    /\ poolPc = "done"
    /\ \E b, c \in 1..Len(batches) :
         /\ batches[b].status = "failed"
         /\ batches[c].status = "completed" /\ batches[c].invocations = 3

RECURSIVE Concat(_)
Concat(bs) == IF bs = <<>> THEN <<>> ELSE Head(bs).items \o Concat(Tail(bs))

(* C26: N >= 1 items and batch_size s >= 1 give ceil(N/s) batches with the *)
(* indices 0..B-1 and the status pending; every batch but the last holds   *)
(* s items, none is empty, and the batches in index order concatenate to   *)
(* the input list.                                                          *)
C26_SplitConservation ==
    /\ [](LET N == Len(poolInput.items)
              s == poolInput.config.batch_size
              B == Len(batches)
          IN  (poolPc # "splitting" /\ s >= 1) =>
                 /\ (B - 1) * s < N /\ N <= B * s
                 /\ \A i \in 1..B :
                       /\ batches[i].index = i - 1
                       /\ batches[i].items # <<>>
                       /\ i < B => Len(batches[i].items) = s
                 /\ Concat(batches) = poolInput.items)
    /\ [][poolPc = "splitting" =>
             \A i \in 1..Len(batches') : batches'[i].status = "pending"]_vars

C26_Witness ==
    /\ poolPc = "processing"
    /\ Len(poolInput.items) = 4
    /\ poolInput.config.batch_size = 3
    /\ Len(batches) = 2
    /\ \A i \in 1..2 : batches[i].status = "pending"

(***************************************************************************)
(* loadMemoryContext and the memory injection of invokeAgent.  Texts are   *)
(* strings; a file is a sequence of lines, the message a sequence of words *)
(* (the string is the words joined by blanks), the prompt a sequence of    *)
(* lines followed by the words of the message.                             *)
(*                                                                         *)
(* A line of reflections.jsonl is a record that JSON.parse accepts (TRUE)  *)
(* or malformed (FALSE); blank lines are dropped before anything else and  *)
(* are left out.  A rendered reflection or episode is named by the number  *)
(* of its line.                                                            *)
(***************************************************************************)
RecentLines == 10
TopEpisodes == 3
MinWordLength == 3

Placeholder == "_No entries yet"

(* String.prototype.includes *)
includes(text, w) ==
    \E i \in 1..(Len(text) - Len(w) + 1) : SubSeq(text, i, i + Len(w) - 1) = w

UpperCase == "ABCDEFGHIJKLMNOPQRSTUVWXYZ"
LowerCase == "abcdefghijklmnopqrstuvwxyz"

(* the lower-case letter of every upper-case letter *)
LowerOf ==
    LET letter(text, i) == SubSeq(text, i, i)
    IN  [c \in {letter(UpperCase, i) : i \in 1..Len(UpperCase)} |->
            letter(LowerCase, CHOOSE i \in 1..Len(UpperCase) : letter(UpperCase, i) = c)]

(* String.prototype.toLowerCase, letter by letter *)
RECURSIVE toLowerCase(_)
toLowerCase(text) ==
    IF text = "" THEN ""
    ELSE LET c == SubSeq(text, 1, 1)
         IN  (IF c \in DOMAIN LowerOf THEN LowerOf[c] ELSE c)
             \o toLowerCase(SubSeq(text, 2, Len(text)))

(* lines.slice(-n) *)
SliceLast(lines, n) ==
    SubSeq(lines, IF Len(lines) > n THEN Len(lines) - n + 1 ELSE 1, Len(lines))

(* scored.slice(0, n) *)
SliceFirst(lines, n) ==
    SubSeq(lines, 1, IF Len(lines) > n THEN n ELSE Len(lines))

(* content.trim(): the file without its leading and trailing blank lines *)
trim(lines) ==
    LET full == {i \in 1..Len(lines) : lines[i] # ""}
    IN  IF full = {} THEN <<>>
        ELSE SubSeq(lines, CHOOSE i \in full : \A j \in full : i <= j,
                           CHOOSE i \in full : \A j \in full : j <= i)

(* 1. Core Memory: the lines of the Knowledge section, <<>> for no section *)
knowledgeSectionKeepPlaceholder(file) ==
    IF file.exists THEN trim(file.lines) ELSE <<>>

knowledgeSection(file) ==
    IF file.exists
    THEN LET knowledge == trim(file.lines)
         IN  IF knowledge # <<>>
                /\ ~\E i \in 1..Len(knowledge) : includes(knowledge[i], Placeholder)
             THEN knowledge
             ELSE <<>>
    ELSE <<>>

(* recent.map(JSON.parse ... catch null).filter(Boolean): the lines rendered *)
Formatted(recent, file) == SelectSeq(recent, LAMBDA i : file[i])

(* 2. the reflections rendered from the file, in order *)
recentReflections(file) ==
    Formatted(SliceLast([i \in 1..Len(file) |-> i], RecentLines), file)

(* userMessage.toLowerCase().split(/\s+/).filter(w => w.length > 3) *)
msgWordsOf(message) ==
    SelectSeq([i \in 1..Len(message) |-> toLowerCase(message[i])],
              LAMBDA w : Len(w) > MinWordLength)

(* the score of one episode line: the message words its text includes *)
scoreOf(line, msgWords) ==
    Cardinality({i \in 1..Len(msgWords) : includes(toLowerCase(line.text), msgWords[i])})

(* scored.sort((a, b) => b.score - a.score): stable, highest score first *)
sortAscending(scored, score) ==
    LET before(i, j) == score[scored[i]] < score[scored[j]]
                        \/ (score[scored[i]] = score[scored[j]] /\ i < j)
        rank(i) == Cardinality({j \in 1..Len(scored) : before(j, i)}) + 1
    IN  [r \in 1..Len(scored) |-> scored[CHOOSE i \in 1..Len(scored) : rank(i) = r]]

sortByScore(scored, score) ==
    LET before(i, j) == score[scored[i]] > score[scored[j]]
                        \/ (score[scored[i]] = score[scored[j]] /\ i < j)
        rank(i) == Cardinality({j \in 1..Len(scored) : before(j, i)}) + 1
    IN  [r \in 1..Len(scored) |-> scored[CHOOSE i \in 1..Len(scored) : rank(i) = r]]

(* 3. Relevant Episodes: the lines rendered, in the order of the section *)
relevantEpisodes(file, message) ==
    LET msgWords == msgWordsOf(message)
        score == [i \in 1..Len(file) |->
                     IF file[i].ok THEN scoreOf(file[i], msgWords) ELSE 0] \o <<>>
        scored == SelectSeq([i \in 1..Len(file) |-> i], LAMBDA i : score[i] > 0)
    IN  SliceFirst(sortByScore(scored, score), TopEpisodes)

(* the words of a text, for the texts of the model: at most two words *)
split(text) ==
    LET blanks == {i \in 1..Len(text) : SubSeq(text, i, i) = " "}
    IN  IF blanks = {} THEN <<text>>
        ELSE LET b == CHOOSE i \in blanks : TRUE
             IN  <<SubSeq(text, 1, b - 1), SubSeq(text, b + 1, Len(text))>>

(* words.join(' ') *)
RECURSIVE join(_)
join(words) ==
    IF words = <<>> THEN ""
    ELSE IF Len(words) = 1 THEN words[1]
    ELSE words[1] \o " " \o join(Tail(words))

(* 4. Relevant Skills: the ids of the skills rendered, in index order *)
relevantSkills(index, message) ==
    IF index.exists /\ index.ok
    THEN LET msgLower == toLowerCase(join([i \in 1..Len(message) |->
                                               toLowerCase(message[i])]))
             matches(entry) ==
                 LET descWords == SelectSeq(split(toLowerCase(entry.description)),
                                            LAMBDA w : Len(w) > MinWordLength)
                 IN  \E i \in 1..Len(descWords) : includes(msgLower, descWords[i])
             matched == SelectSeq(index.entries,
                                  LAMBDA entry : matches(entry) /\ entry.file)
         IN  [i \in 1..Len(matched) |-> matched[i].id]
    ELSE <<>>

(* `[MEMORY]\n${sections.join('\n\n')}\n[/MEMORY]\n\n`, or '' *)
memoryBlock(ctx) ==
    LET named(i, what) == [j \in 1..Len(i) |-> "- " \o what \o " " \o ToString(i[j])]
        sections ==
            (IF ctx.knowledge # <<>> THEN <<"## Knowledge">> \o ctx.knowledge ELSE <<>>)
            \o (IF ctx.reflections # <<>>
                THEN <<"## Recent Reflections">> \o named(ctx.reflections, "reflection")
                ELSE <<>>)
            \o (IF ctx.episodes # <<>>
                THEN <<"## Relevant Past Conversations">> \o named(ctx.episodes, "episode")
                ELSE <<>>)
            \o (IF ctx.skills # <<>>
                THEN <<"## Relevant Skills">>
                     \o [j \in 1..Len(ctx.skills) |-> "### " \o ctx.skills[j]]
                ELSE <<>>)
    IN  IF sections = <<>> THEN <<>>
        ELSE <<"[MEMORY]">> \o sections \o <<"[/MEMORY]">>

loadMemoryContext ==
    /\ memoryContext = NoContext
    /\ LET ctx == [knowledge |-> knowledgeSection(memoryDir.knowledge),
                   reflections |-> recentReflections(memoryDir.reflections),
                   episodes |-> relevantEpisodes(memoryDir.episodes, userMessage),
                   skills |-> relevantSkills(memoryDir.skills, userMessage)]
       IN  memoryContext' = [loaded |-> TRUE,
                             knowledge |-> ctx.knowledge,
                             reflections |-> ctx.reflections,
                             episodes |-> ctx.episodes,
                             skills |-> ctx.skills,
                             text |-> memoryBlock(ctx)]
    /\ UNCHANGED <<memoryDir, userMessage, prompt>>
    /\ UNCHANGED exceptMemory

(* message = memoryContext + message *)
prependMemoryOnly(context, message) ==
    IF context # <<>> THEN context ELSE message

prependMemory(context, message) ==
    IF context # <<>> THEN context \o message ELSE message

(* invokeAgent up to the provider call: the prompt with the memory block *)
invokeAgent ==
    /\ memoryContext.loaded
    /\ ~prompt.sent
    /\ prompt' = [sent |-> TRUE,
                  message |-> prependMemory(memoryContext.text, userMessage)]
    /\ UNCHANGED <<memoryDir, userMessage, memoryContext>>
    /\ UNCHANGED exceptMemory

InitMemory ==
    /\ QueueInit
    /\ SwarmIdle
    /\ RespondIdle
    /\ ShuffleIdle
    /\ JobIdle
    /\ RouteIdle
    /\ ChainIdle
    /\ PoolIdle
    /\ \E file \in UNION {[1..n -> BOOLEAN] : n \in 0..MaxLines} :
           memoryDir = [EmptyMemoryDir EXCEPT !.reflections = file]
    /\ userMessage = <<>>
    /\ memoryContext = NoContext
    /\ prompt = NoPrompt

SpecMemory == InitMemory /\ [][loadMemoryContext]_vars

(* the numbers of the parseable lines of the file, in order *)
Parseable(file) == SelectSeq([i \in 1..Len(file) |-> i], LAMBDA i : file[i])

(* C30: the Recent Reflections section renders the last 10 parseable lines *)
(* of reflections.jsonl: exactly 10 reflections when the file has at least *)
(* 10 parseable lines, wherever its malformed lines are.                    *)
C30_LastTenParseable ==
    memoryContext.loaded =>
        LET all == Parseable(memoryDir.reflections)
        IN  /\ memoryContext.reflections = SliceLast(all, 10)
            /\ Len(all) >= 10 => Len(memoryContext.reflections) = 10

(***************************************************************************)
(* invokeAgent with any memory directory: the files and the messages.      *)
(***************************************************************************)
MsgVocabulary == {"Queue", "memory", "bug"}

UserMessages == UNION {[1..n -> MsgVocabulary] : n \in 0..MaxWords}

Malformed == [ok |-> FALSE, text |-> ""]

(* a line of episodes.jsonl: malformed, or its summary and tags as one text *)
EpisodeLines ==
    {Malformed,
     [ok |-> TRUE, text |-> "queues bug"],
     [ok |-> TRUE, text |-> "Memory queue"],
     [ok |-> TRUE, text |-> "setup"]}

EpisodeFiles == UNION {[1..n -> EpisodeLines] : n \in 0..MaxEpisodes}

FewEpisodes == {<<>>} \cup {<<line>> : line \in EpisodeLines}

KnowledgeFiles ==
    {Missing} \cup
    {[exists |-> TRUE, lines |-> lines] :
        lines \in {<<>>, <<"">>, <<"", "Favorite color is blue", "">>,
                   <<"_No entries yet_">>,
                   <<"Favorite color is blue", "_No entries yet_">>}}

ReflectionFiles == {<<>>, <<FALSE>>, <<FALSE, TRUE>>}

SkillIndexes ==
    {Missing, [exists |-> TRUE, ok |-> FALSE, entries |-> <<>>]} \cup
    {[exists |-> TRUE, ok |-> TRUE,
      entries |-> <<[id |-> "requeue", description |-> description, file |-> file]>>] :
        description \in {"Queue helper", "fix bug"}, file \in BOOLEAN}

InitInvoke ==
    /\ QueueInit
    /\ SwarmIdle
    /\ RespondIdle
    /\ ShuffleIdle
    /\ JobIdle
    /\ RouteIdle
    /\ ChainIdle
    /\ PoolIdle
    /\ userMessage \in UserMessages
    /\ \/ \E k \in KnowledgeFiles, r \in ReflectionFiles, e \in FewEpisodes,
            s \in SkillIndexes :
              memoryDir = [knowledge |-> k, reflections |-> r, episodes |-> e,
                           skills |-> s]
       \/ \E e \in EpisodeFiles :
              memoryDir = [EmptyMemoryDir EXCEPT !.episodes = e]
    /\ memoryContext = NoContext
    /\ prompt = NoPrompt

NextInvoke == loadMemoryContext \/ invokeAgent

SpecInvoke == InitInvoke /\ [][NextInvoke]_vars

(* the lines of the memory block in the prompt: all but the message's words *)
BlockOf(p, message) == SubSeq(p, 1, Len(p) - Len(message))

HasPlaceholder(file) ==
    file.exists /\ \E i \in 1..Len(file.lines) : includes(file.lines[i], Placeholder)

(* what the files hold for the four sections, read off the directory *)
SomeKnowledge ==
    /\ memoryDir.knowledge.exists
    /\ \E i \in 1..Len(memoryDir.knowledge.lines) : memoryDir.knowledge.lines[i] # ""
    /\ ~HasPlaceholder(memoryDir.knowledge)

SomeReflection ==
    \E i \in 1..Len(memoryDir.reflections) :
        memoryDir.reflections[i] /\ i > Len(memoryDir.reflections) - RecentLines

(* the score of episode line i for the message *)
Score(i) ==
    Cardinality({j \in 1..Len(userMessage) :
                    /\ Len(userMessage[j]) > 3
                    /\ includes(toLowerCase(memoryDir.episodes[i].text),
                                toLowerCase(userMessage[j]))})

SomeEpisode ==
    \E i \in 1..Len(memoryDir.episodes) : memoryDir.episodes[i].ok /\ Score(i) > 0

SomeSkill ==
    /\ memoryDir.skills.exists
    /\ memoryDir.skills.ok
    /\ \E i \in 1..Len(memoryDir.skills.entries) :
          LET entry == memoryDir.skills.entries[i]
              words == split(toLowerCase(entry.description))
          IN  /\ entry.file
              /\ \E j \in 1..Len(words), k \in 1..Len(userMessage) :
                    /\ Len(words[j]) > 3
                    /\ includes(toLowerCase(userMessage[k]), words[j])

(* C31: the prompt passed to the worker is the memory block followed by    *)
(* the original message, so it ends with the message unchanged; the block  *)
(* [MEMORY] ... [/MEMORY] is there exactly when one of the four sections   *)
(* has something to show, and a knowledge.md with the placeholder          *)
(* `_No entries yet` gives no Knowledge section.                           *)
C31_MemoryInjection ==
    prompt.sent =>
        LET p == prompt.message
            block == BlockOf(p, userMessage)
        IN  /\ Len(p) >= Len(userMessage)
            /\ SubSeq(p, Len(p) - Len(userMessage) + 1, Len(p)) = userMessage
            /\ block # <<>> <=>
                   (SomeKnowledge \/ SomeReflection \/ SomeEpisode \/ SomeSkill)
            /\ block # <<>> =>
                   /\ block[1] = "[MEMORY]"
                   /\ block[Len(block)] = "[/MEMORY]"
                   /\ Len(block) > 2
            /\ HasPlaceholder(memoryDir.knowledge) =>
                   \A i \in 1..Len(p) : p[i] # "## Knowledge"

C31_Witness ==
    /\ prompt.sent
    /\ userMessage = <<"Queue", "bug">>
    /\ HasPlaceholder(memoryDir.knowledge)
    /\ ~SomeReflection
    /\ prompt.message = <<"[MEMORY]", "## Relevant Skills", "### requeue", "[/MEMORY]",
                          "Queue", "bug">>

Included(i) == \E j \in 1..Len(memoryContext.episodes) : memoryContext.episodes[j] = i

(* C36: the composer shows at most 3 episodes, each a parseable line with  *)
(* a score above 0, highest score first and no line twice; no parseable    *)
(* line left out scores higher than a line shown, and a scoring line is    *)
(* left out only when 3 are shown; malformed lines are skipped.            *)
C36_EpisodeSelection ==
    memoryContext.loaded =>
        LET shown == memoryContext.episodes
            file == memoryDir.episodes
            score == [i \in 1..Len(file) |-> Score(i)] \o <<>>
        IN  /\ Len(shown) <= 3
            /\ \A j \in 1..Len(shown) :
                  /\ shown[j] \in 1..Len(file)
                  /\ file[shown[j]].ok
                  /\ score[shown[j]] > 0
            /\ \A j, k \in 1..Len(shown) :
                  j < k => /\ score[shown[j]] >= score[shown[k]]
                           /\ shown[j] # shown[k]
            /\ \A i \in 1..Len(file) :
                  (file[i].ok /\ score[i] > 0 /\ ~Included(i)) =>
                      /\ Len(shown) = 3
                      /\ \A j \in 1..Len(shown) : score[i] <= score[shown[j]]

C36_Witness ==
    /\ memoryContext.loaded
    /\ Len(memoryDir.episodes) = 4
    /\ ~memoryDir.episodes[2].ok
    /\ userMessage = <<"Queue", "memory">>
    /\ memoryContext.episodes = <<3, 1, 4>>
    /\ Score(3) = 2
    /\ Score(1) = 1

(***************************************************************************)
(* The final merge of shuffleReducePartitions, for any partition names and *)
(* for partition counts around the fan-in.  A run starts at the call, with *)
(* up to MaxParts keyed partitions, or where Promise.all resolves after a  *)
(* reduce of many partitions: every task settled, the results pushed in    *)
(* task order but for one task that finished last, at most one failure.    *)
(***************************************************************************)
AroundFanin == (hierarchical_reduce_fanin - 1)..(hierarchical_reduce_fanin + 1)

(* the results in the order of completion: task order, `late` at the end *)
CompletionOrder(late) ==
    [i \in 1..NTasks |-> IF i < late THEN i ELSE IF i < NTasks THEN i + 1 ELSE late]

(* what the tasks pushed when task `bad` threw (0: none did) *)
Pushed(late, bad) ==
    LET order == SelectSeq(CompletionOrder(late),
                           LAMBDA t : t <= shuffleResult.partitions \/ t # bad)
    IN  [i \in 1..Len(order) |->
            [key |-> KeyOfTask(order[i]), ok |-> order[i] # bad, task |-> order[i]]]

InitCall ==
    /\ QueueInit
    /\ RespondIdle
    /\ ShuffleIdle
    /\ JobIdle
    /\ RouteIdle
    /\ ChainIdle
    /\ PoolIdle
    /\ MemoryIdle
    /\ shuffleResult \in {r \in [partitions : 0..MaxParts, unkeyed : BOOLEAN,
                                 clash : BOOLEAN] : r.clash => r.partitions >= 1}
    /\ semaphore \in [max : 1..MaxConc, current : {0}, queue : {<<>>}]
    /\ promises = [t \in Tasks |-> "none"]
    /\ partitionResults = <<>>
    /\ reducePc = "map"
    /\ releases = [t \in Tasks |-> 0]

InitAwaited ==
    /\ QueueInit
    /\ RespondIdle
    /\ ShuffleIdle
    /\ JobIdle
    /\ RouteIdle
    /\ ChainIdle
    /\ PoolIdle
    /\ MemoryIdle
    /\ shuffleResult \in [partitions : AroundFanin, unkeyed : BOOLEAN, clash : {FALSE}]
    /\ semaphore \in [max : 1..MaxConc, current : {0}, queue : {<<>>}]
    /\ promises = [t \in 1..NTasks |-> "settled"]
    /\ \E late \in 1..NTasks, bad \in 0..NTasks :
          /\ semaphore.max = 1 => late = NTasks
          /\ partitionResults = Pushed(late, bad)
    /\ reducePc = "await"
    /\ releases = [t \in 1..NTasks |-> 1]

InitMerge == InitCall \/ InitAwaited

SpecMerge == InitMerge /\ [][NextReduce]_vars

(* C32: with c partition results, the reducer is invoked once for the      *)
(* merge when c <= 20, and the job result is its text, or the concatenated *)
(* partition results if it fails; when c > 20 there is no merge invocation *)
(* and the result is the concatenated partition results.  The merge starts *)
(* only when every partition task has settled.                             *)
C32_FinalMerge ==
    /\ [](reducePc \in {"merge", "merged", "concatenated"} =>
             \A t \in 1..NTasks : promises[t] = "settled")
    /\ [](reducePc \in {"merge", "merged"} => Len(partitionResults) <= 20)
    /\ [][/\ (reducePc = "await" /\ reducePc' # "await") =>
                 /\ Len(partitionResults') = Len(partitionResults)
                 /\ reducePc' = IF Len(partitionResults) <= 20
                                THEN "merge" ELSE "concatenated"
          /\ (reducePc = "merge" /\ reducePc' # "merge") =>
                 reducePc' \in {"merged", "concatenated"}
          /\ reducePc \in {"merged", "concatenated"} => reducePc' = reducePc
          /\ reducePc \in {"merge", "merged", "concatenated"} =>
                 partitionResults' = partitionResults
         ]_vars

(* 21 results of 22 partitions, returned without a merge *)
C32_Witness ==
    /\ reducePc = "concatenated"
    /\ shuffleResult.partitions = 21
    /\ shuffleResult.unkeyed
    /\ Len(partitionResults) = 21
    /\ \A i \in 1..21 : partitionResults[i].key = i

(* the results as pushed when the tasks finish in the order of their start *)
InTaskOrder(rs) ==
    [p \in 1..Len(rs) |->
        rs[CHOOSE j \in 1..Len(rs) :
              Cardinality({k \in 1..Len(rs) : rs[k].task <= rs[j].task}) = p]]

(* C33: the sections given to the final merge are in the order of their    *)
(* partition keys, and the merge input does not depend on the order in     *)
(* which the partition reduces finished: it is what the tasks finishing in *)
(* the order of their start give, also when a partition is named           *)
(* `_unkeyed` while unkeyed items exist.                                   *)
C33_MergeInputOrder ==
    reducePc \in {"merge", "merged", "concatenated"} =>
        /\ \A i, j \in 1..Len(partitionResults) :
              i < j => partitionResults[i].key <= partitionResults[j].key
        /\ partitionResults = SortByKey(InTaskOrder(partitionResults))

(* C34: the steps of a fan-out are appended to chainSteps in the order of  *)
(* the mentions of the response that started it, whatever the order in     *)
(* which the invocations finished, and the aggregated response has one     *)
(* `@<agentId>:` section for each step, in the order of the steps.         *)
C34_FanOutOrder ==
    [][\A p \in Convs :
          LET c == conv[p]
              d == conv'[p]
          IN  (c.pc = "fanout" /\ d.pc = "done") =>
                 /\ {d.completed[i] : i \in 1..Len(d.completed)} =
                        {c.mentions[i] : i \in 1..Len(c.mentions)}
                 /\ Len(d.chainSteps) = Len(c.chainSteps) + Len(c.mentions)
                 /\ \A i \in 1..Len(c.chainSteps) : d.chainSteps[i] = c.chainSteps[i]
                 /\ \A i \in 1..Len(c.mentions) :
                        d.chainSteps[Len(c.chainSteps) + i] = c.mentions[i]
                 /\ Len(d.finalResponse) = Len(d.chainSteps)
                 /\ \A i \in 1..Len(d.chainSteps) :
                        /\ d.finalResponse[i].agentId = d.chainSteps[i]
                        /\ d.finalResponse[i].prefixed]_vars

(* the teammate mentioned second answered first *)
C34_Witness ==
    \E p \in Convs :
        /\ conv[p].pc = "done"
        /\ conv[p].mentions = <<"b", "c">>
        /\ conv[p].completed = <<"c", "b">>
        /\ conv[p].chainSteps = <<"a", "b", "c">>
        /\ Len(conv[p].finalResponse) = 3

(* the message is not pre-routed and its leading @tokens match team t only *)
AddressedToTeam(t) ==
    /\ inbound.agent \notin settings.agents
    /\ t \in settings.teams
    /\ MatchedIds = <<t>>

(* C35: a message addressed to team T by its @T prefix runs in the context *)
(* of T: the teammates are those of T and the transcript goes to chats/T,  *)
(* for every configuration, also when several teams have the same leader.  *)
C35_TeamContext ==
    \A t \in TeamIds :
        (routed # NoRoute /\ AddressedToTeam(t)) =>
            /\ routed.branch = "invoke"
            /\ teamContext = t

(***************************************************************************)
(* Release of the per-key promise chains (agentProcessingChains).          *)
(***************************************************************************)
(* The tasks of key k that have not settled. *)
Pending(k) == {f \in 1..Len(content) : task[f].pc # "none" /\ keyOf(f) = k}

(* The task settles in this step (the process does not die). *)
SettlesNow(f) == task[f].pc # "none" /\ task'[f].pc = "none" /\ crashes' = crashes

(* The file is enqueued by the tick of this step. *)
EnqueuedNow(f) == task[f].pc = "none" /\ task'[f].pc = "waiting"

(* The entry of a key with pending tasks is the tail of their chain: *)
(* a pending task nothing is chained on; every other pending task of the   *)
(* key is waited for by exactly one pending task of the key.               *)
TailOf(k) ==
    /\ chains[k] \in Pending(k)
    /\ \A f \in Pending(k) :
          Cardinality({g \in Pending(k) : task[g].pred = f})
              = IF f = chains[k] THEN 0 ELSE 1

(* C37: the entry of key k is deleted only by the settle callback of the   *)
(* task that is the tail of k's chain; the callback of an older task       *)
(* leaves the entry of a chain with pending tasks in place; a message      *)
(* enqueued while a task of k is pending is chained after the tail; once   *)
(* all tasks of k have settled the map has no entry for k.                 *)
C37_ChainRelease ==
    /\ [](\A k \in Keys :
            IF Pending(k) = {} THEN chains[k] = NoFile ELSE TailOf(k))
    /\ [][\A k \in Keys :
            /\ (chains[k] # NoFile /\ chains'[k] = NoFile /\ crashes' = crashes)
                  => SettlesNow(chains[k])
            /\ \A f \in Pending(k) :
                  (SettlesNow(f) /\ f # chains[k]) => chains'[k] = chains[k]
            /\ \A g \in 1..Len(content) :
                  (EnqueuedNow(g) /\ keyOf(g) = k /\ Pending(k) # {})
                      => /\ task'[g].pred # NoFile
                         /\ keyOf(task'[g].pred) = k
                         /\ task'[task'[g].pred].pc # "none"
                         /\ \/ task'[g].pred = chains[k]
                            \/ EnqueuedNow(task'[g].pred)]_vars

(* An older task of a key has settled while a younger one, enqueued while  *)
(* it ran, is still the tail of the chain and keeps the entry.             *)
C37_Witness ==
    \E k \in Keys : \E f, g \in 1..Len(content) :
        /\ f < g
        /\ keyOf(f) = k /\ keyOf(g) = k
        /\ \E i \in 1..Len(outgoing) : outgoing[i].mid = f
        /\ task[f].pc = "none"
        /\ task[g].pc # "none"
        /\ chains[k] = g

(***************************************************************************)
(* The dispatcher with failing file operations: every renameSync,          *)
(* writeFileSync and unlinkSync of processMessage may throw.               *)
(***************************************************************************)
Upset == crashes + faults < MaxUpsets /\ faults' = faults + 1

(* renameSync(messageFile, processingFile) throws: the catch finds no      *)
(* processing file and the task settles with the file still in incoming.   *)
StartFails(f) ==
    /\ phase = "run"
    /\ task[f].pc = "waiting"
    /\ task[f].pred = NoFile
    /\ f \in incoming
    /\ Upset
    /\ Settle(f)
    /\ UNCHANGED <<phase, content, incoming, processing, outgoing, crashes,
                   firstEnq, rolled>>
    /\ UNCHANGED exceptQueue

(* writeFileSync of the response throws after a single-agent invocation:   *)
(* nothing is written and the catch moves the file back.                   *)
WriteFails(f) ==
    /\ phase = "run"
    /\ ~Busy
    /\ task[f].pc = "invoking"
    /\ ~task[f].team
    /\ Upset
    /\ Rollback(f)
    /\ UNCHANGED <<phase, content, outgoing, crashes, firstEnq>>
    /\ UNCHANGED exceptQueue

(* unlinkSync(processingFile) throws after the response was written: the   *)
(* catch moves the file back to incoming.                                  *)
UnlinkFails(f) ==
    /\ phase = "run"
    /\ task[f].pc = "written"
    /\ Upset
    /\ Rollback(f)
    /\ UNCHANGED <<phase, content, outgoing, crashes, firstEnq>>
    /\ UNCHANGED exceptQueue

(* The renameSync of the catch block throws too (logged): the file stays   *)
(* in processing and the task settles.                                     *)
RollbackFails(f) ==
    /\ phase = "run"
    /\ task[f].pc = "moved"
    /\ Upset
    /\ Settle(f)
    /\ UNCHANGED <<phase, content, incoming, processing, outgoing, crashes,
                   firstEnq, rolled>>
    /\ UNCHANGED exceptQueue

StartFailsSome == \E f \in Files : StartFails(f)
WriteFailsSome == \E f \in Files : WriteFails(f)
UnlinkFailsSome == \E f \in Files : UnlinkFails(f)
RollbackFailsSome == \E f \in Files : RollbackFails(f)

NextFaulty ==
    \/ Next
    \/ StartFailsSome
    \/ WriteFailsSome
    \/ UnlinkFailsSome
    \/ RollbackFailsSome

SpecFaulty == Init /\ [][NextFaulty]_vars

Answered(f) == \E i \in 1..Len(outgoing) : outgoing[i].mid = f

(* C38: every message file that was deposited is in incoming or in         *)
(* processing, or a response for its messageId has been written to         *)
(* outgoing, whatever ticks, task steps, rollbacks, crashes and failing    *)
(* file operations happened.                                               *)
C38_MessageConservation ==
    \A f \in 1..Len(content) : f \in incoming \/ f \in processing \/ Answered(f)

(* A rollback whose rename failed left an unanswered file in processing    *)
(* with no task, and a later file was answered and removed.                *)
C38_Witness ==
    \E f, g \in 1..Len(content) :
        /\ f \in processing /\ ~Answered(f) /\ task[f].pc = "none"
        /\ phase = "run" /\ crashes = 0
        /\ Answered(g) /\ g \notin incoming /\ g \notin processing

(***************************************************************************)
(* Placements: one per occurrence of an item in a partition of a map.      *)
(***************************************************************************)
RECURSIVE Placements(_)
Placements(map) ==
    IF map = <<>> THEN 0 ELSE Len(Head(map).items) + Placements(Tail(map))

(* the names the sub-split writes: the key itself, or one name per chunk *)
NamesWritten(p) ==
    IF Len(PreSplit[p].items) <= maxPartitionSizeOf(shuffleConfig) THEN 1
    ELSE Chunks(PreSplit[p].items, maxPartitionSizeOf(shuffleConfig))

RECURSIVE NamesWrittenFrom(_)
NamesWrittenFrom(p) ==
    IF p > Len(PreSplit) THEN 0 ELSE NamesWritten(p) + NamesWrittenFrom(p + 1)

(* C39: the partition map returned by shuffleByKey holds as many item      *)
(* placements as grouping produced (item, used key) pairs, its partitions  *)
(* are as many as the names the sub-split wrote (no name was written       *)
(* twice), and unkeyed holds exactly the items without a key, in order.    *)
C39_NoPlacementLost ==
    shuffled.done =>
        /\ Placements(shuffled.partitions) = Placements(PreSplit)
        /\ Len(shuffled.partitions) = NamesWrittenFrom(1)
        /\ shuffled.unkeyed =
              SelectSeq([i \in 1..Len(mapOutput) |-> i],
                        LAMBDA i : extractKeys(mapOutput[i]) = <<>>)

(***************************************************************************)
(* shuffleReducePartitions: the item lists handed to                       *)
(* buildPartitionReducePrompt, one per key of the returned map and one for *)
(* the unkeyed items if there are any.                                     *)
(***************************************************************************)
reduceInputs(result) ==
    [p \in 1..Len(result.partitions) |->
        [key |-> result.partitions[p].key,
         items |-> MapGet(result.partitions, result.partitions[p].key)]]
    \o (IF Len(result.unkeyed) > 0
        THEN <<[key |-> "_unkeyed", items |-> result.unkeyed]>>
        ELSE <<>>)

(* C40: every partition handed to a partition-reduce invocation, the       *)
(* `_unkeyed` partition included, holds at most max_partition_size items.  *)
C40_ReducerPartitionBound ==
    shuffled.done =>
        \A p \in 1..Len(reduceInputs(shuffled)) :
            Len(reduceInputs(shuffled)[p].items) <= maxPartitionSizeOf(shuffleConfig)

==============================================================================
